---- MODULE Spec2Model ----
(***************************************************************************)
(* The in-memory datastore of the graph database (memory/datastore.rs):    *)
(* the seven tables of InternalMemoryDatastore behind one RwLock, the      *)
(* query evaluators over them and the MemoryTransaction / MemoryDatastore  *)
(* operations.                                                             *)
(*                                                                         *)
(* Encoding.  A Uuid is a number 0..MaxUuid (0 is Uuid::default(), MaxUuid *)
(* the all-ones uuid).  A Type is a number: 0 is Type::default() (the      *)
(* empty string, the least type), 1..MaxType are the named types.  A       *)
(* property name is a number 1..MaxName, 0 being the empty string that     *)
(* the range lower bounds use.  A JSON value is a number 1..MaxValue.      *)
(* A DateTime is a number 0..MaxTime.  Option::None is None.               *)
(* A BTreeMap is a function with a finite domain, iterated in key order;   *)
(* a HashMap is a function, a HashSet a set.                               *)
(***************************************************************************)
EXTENDS Integers, Sequences, FiniteSets, TLC

MaxUuid == 2
MaxType == 2
MaxName == 1
MaxValue == 2
MaxTime == 1
MaxEdges == 2
MaxLimit == 3
MaxPropertyName == 2

None == -1
UuidDefault == 0
TypeDefault == 0
EmptyString == 0
JsonNull == 0

Uuids == 0..MaxUuid
Types == 1..MaxType
Names == 1..MaxName
Values == 1..MaxValue
Times == 0..MaxTime
PropertyNames == 1..MaxPropertyName
JsonValues == {JsonNull} \cup Values

EdgeKeyNew(outbound_id, t, inbound_id) ==
    [outbound_id |-> outbound_id, t |-> t, inbound_id |-> inbound_id]

EdgeKeyReversed(key) == EdgeKeyNew(key.inbound_id, key.t, key.outbound_id)

EdgeKeys == { EdgeKeyNew(o, t, i) : o \in Uuids, t \in Types, i \in Uuids }

(***************************************************************************)
(* Key orders of the ordered maps.                                         *)
(***************************************************************************)
EdgeKeyLess(a, b) ==
    \/ a.outbound_id < b.outbound_id
    \/ a.outbound_id = b.outbound_id /\ a.t < b.t
    \/ a.outbound_id = b.outbound_id /\ a.t = b.t /\ a.inbound_id < b.inbound_id

VertexPropertyKeyLess(a, b) ==
    \/ a[1] < b[1]
    \/ a[1] = b[1] /\ a[2] < b[2]

EdgePropertyKeyLess(a, b) ==
    \/ EdgeKeyLess(a[1], b[1])
    \/ a[1] = b[1] /\ a[2] < b[2]

(***************************************************************************)
(* Maps and iterators.                                                     *)
(***************************************************************************)
EmptyMap == [x \in {} |-> 0]

\* an insert that keeps the value of a key the map already holds
MapInsertIfAbsent(m, k, v) == [x \in DOMAIN m \cup {k} |-> IF x \in DOMAIN m THEN m[x] ELSE v]

MapInsert(m, k, v) == [x \in DOMAIN m \cup {k} |-> IF x = k THEN v ELSE m[x]]

MapRemove(m, k) == [x \in DOMAIN m \ {k} |-> m[x]]

Min(a, b) == IF a < b THEN a ELSE b

Take(s, n) == SubSeq(s, 1, Min(n, Len(s)))

TakeWhile(s, P(_)) ==
    LET n == CHOOSE k \in 0..Len(s) :
                 /\ \A i \in 1..k : P(s[i])
                 /\ k < Len(s) => ~P(s[k + 1])
    IN  SubSeq(s, 1, n)

RECURSIVE Flatten(_)
Flatten(ss) == IF ss = <<>> THEN <<>> ELSE Head(ss) \o Flatten(Tail(ss))

SeqRange(s) == { s[i] : i \in 1..Len(s) }

\* the keys of an ordered map from a lower bound on, in ascending order
UuidsFrom(S, from) ==
    LET R == { x \in S : x >= from }
    IN  [i \in 1..Cardinality(R) |->
            CHOOSE x \in R : Cardinality({ y \in R : y < x }) = i - 1]

EdgeKeysFrom(S, from) ==
    LET R == { x \in S : ~EdgeKeyLess(x, from) }
    IN  [i \in 1..Cardinality(R) |->
            CHOOSE x \in R : Cardinality({ y \in R : EdgeKeyLess(y, x) }) = i - 1]

VertexPropertyKeysFrom(S, from) ==
    LET R == { x \in S : ~VertexPropertyKeyLess(x, from) }
    IN  [i \in 1..Cardinality(R) |->
            CHOOSE x \in R : Cardinality({ y \in R : VertexPropertyKeyLess(y, x) }) = i - 1]

EdgePropertyKeysFrom(S, from) ==
    LET R == { x \in S : ~EdgePropertyKeyLess(x, from) }
    IN  [i \in 1..Cardinality(R) |->
            CHOOSE x \in R : Cardinality({ y \in R : EdgePropertyKeyLess(y, x) }) = i - 1]

(***************************************************************************)
(* Results: Ok(values), Err(Error::NotIndexed), or a panic (todo!()).      *)
(***************************************************************************)
Ok(val) == [err |-> "Ok", val |-> val]
NotIndexed == [err |-> "NotIndexed", val |-> <<>>]
Panic == [err |-> "Panic", val |-> <<>>]

(***************************************************************************)
(* InternalMemoryDatastore::default()                                      *)
(***************************************************************************)
InternalMemoryDatastore ==
    [vertices               |-> EmptyMap,
     edges                  |-> EmptyMap,
     reversed_edges         |-> EmptyMap,
     vertex_properties      |-> EmptyMap,
     edge_properties        |-> EmptyMap,
     vertex_property_values |-> EmptyMap,
     edge_property_values   |-> EmptyMap]

\* iter_vertex_values!: the ids that exist, each with its type, in order
iter_vertex_values(self, ids) ==
    LET present == SelectSeq(ids, LAMBDA id : id \in DOMAIN self.vertices)
    IN  [i \in 1..Len(present) |-> [id |-> present[i], t |-> self.vertices[present[i]]]]

get_all_vertices_with_property(self, property_name) ==
    IF property_name \in DOMAIN self.vertex_property_values
    THEN LET container == self.vertex_property_values[property_name]
         IN  Ok(UNION { container[v] : v \in DOMAIN container })
    ELSE NotIndexed

\* iter.filter(|(_, v)| v == t), applied when the query names a type
filter_vertex_type(rows, t) ==
    IF t # None THEN SelectSeq(rows, LAMBDA v : v.t = t) ELSE rows

\* self.vertices.range(start_id..) or self.vertices.iter()
\* range_vertices that always starts at the least vertex
range_vertices_from_least(self, start_id) ==
    iter_vertex_values(self, UuidsFrom(DOMAIN self.vertices, UuidDefault))

\* range_vertices that starts after start_id
range_vertices_after_start(self, start_id) ==
    IF start_id # None
    THEN iter_vertex_values(self, UuidsFrom(DOMAIN self.vertices, start_id + 1))
    ELSE iter_vertex_values(self, UuidsFrom(DOMAIN self.vertices, UuidDefault))

range_vertices(self, start_id) ==
    IF start_id # None
    THEN iter_vertex_values(self, UuidsFrom(DOMAIN self.vertices, start_id))
    ELSE iter_vertex_values(self, UuidsFrom(DOMAIN self.vertices, UuidDefault))

\* the end of each edge that the pipe's direction names
pipe_endpoints(edges, direction) ==
    [i \in 1..Len(edges) |->
        IF direction = "Outbound" THEN edges[i].key.outbound_id ELSE edges[i].key.inbound_id]

\* VertexQuery::Pipe once the inner edge query is evaluated
pipe_vertices(self, q, edge_values) ==
    IF edge_values.err # "Ok" THEN edge_values
    ELSE Ok(Take(filter_vertex_type(
                     iter_vertex_values(self, pipe_endpoints(edge_values.val, q.direction)),
                     q.t),
                 q.limit))

\* VertexQuery::PropertyPresence once the index is read
vertices_with_property_presence(self, vertices) ==
    IF vertices.err # "Ok" THEN vertices
    ELSE Ok(iter_vertex_values(self, UuidsFrom(vertices.val, UuidDefault)))

\* VertexQuery::PipePropertyPresence once the index is read and the inner
\* vertex query is evaluated
pipe_property_presence(q, vertices_with_property, vertex_values) ==
    IF vertices_with_property.err # "Ok" THEN vertices_with_property
    ELSE IF vertex_values.err # "Ok" THEN vertex_values
    ELSE IF q.exists
    THEN Ok(SelectSeq(vertex_values.val, LAMBDA v : v.id \in vertices_with_property.val))
    ELSE Ok(SelectSeq(vertex_values.val, LAMBDA v : v.id \notin vertices_with_property.val))

\* specific.keys.filter_map(|key| self.edges.get(&key))
iter_edge_values(self, keys) ==
    LET present == SelectSeq(keys, LAMBDA key : key \in DOMAIN self.edges)
    IN  [i \in 1..Len(present) |->
            [key |-> present[i], update_datetime |-> self.edges[present[i]]]]

\* the table the pipe's direction scans
pipe_table(self, direction) ==
    IF direction = "Outbound" THEN self.edges ELSE self.reversed_edges

\* the flat_map closure: the table's keys from the vertex's lower bound on,
\* while they stay at the vertex
edges_of_vertex(table, id, t) ==
    LET lower_bound == IF t # None
                       THEN EdgeKeyNew(id, t, UuidDefault)
                       ELSE EdgeKeyNew(id, TypeDefault, UuidDefault)
    IN  TakeWhile(EdgeKeysFrom(DOMAIN table, lower_bound),
                  LAMBDA key : key.outbound_id = id)

edges_of_vertices(table, vertices, t) ==
    Flatten([i \in 1..Len(vertices) |-> edges_of_vertex(table, vertices[i].id, t)])

filter_edge_type(keys, t) ==
    IF t # None THEN SelectSeq(keys, LAMBDA key : key.t = t) ELSE keys

filter_high(table, keys, high) ==
    IF high # None THEN SelectSeq(keys, LAMBDA key : table[key] <= high) ELSE keys

filter_low(table, keys, low) ==
    IF low # None THEN SelectSeq(keys, LAMBDA key : table[key] >= low) ELSE keys

\* the keys as the caller sees them: reversed back when the reversed table
\* was scanned
\* pipe_edge_values that hands out the scanned table's keys as they are
pipe_edge_values_as_scanned(table, keys, direction) ==
    [i \in 1..Len(keys) |-> [key |-> keys[i], update_datetime |-> table[keys[i]]]]

pipe_edge_values(table, keys, direction) ==
    [i \in 1..Len(keys) |->
        [key |-> IF direction = "Outbound" THEN keys[i] ELSE EdgeKeyReversed(keys[i]),
         update_datetime |-> table[keys[i]]]]

\* pipe_edges_of that applies the limit before the type filter
pipe_edges_limited_first(table, q, vertices) ==
    pipe_edge_values(table,
                     filter_low(table,
                                filter_high(table,
                                            filter_edge_type(
                                                Take(edges_of_vertices(table, vertices, q.t),
                                                     q.limit),
                                                q.t),
                                            q.high),
                                q.low),
                     q.direction)

pipe_edges_of(table, q, vertices) ==
    pipe_edge_values(table,
                     Take(filter_low(table,
                                     filter_high(table,
                                                 filter_edge_type(
                                                     edges_of_vertices(table, vertices, q.t),
                                                     q.t),
                                                 q.high),
                                     q.low),
                          q.limit),
                     q.direction)

\* EdgeQuery::Pipe once the inner vertex query is evaluated
pipe_edges(self, q, iter) ==
    IF iter.err # "Ok" THEN iter
    ELSE Ok(pipe_edges_of(pipe_table(self, q.direction), q, iter.val))

RECURSIVE get_vertex_values_by_query(_, _)
RECURSIVE get_edge_values_by_query(_, _)

get_vertex_values_by_query(self, q) ==
    CASE q.kind = "Range" ->
            Ok(Take(filter_vertex_type(range_vertices(self, q.start_id), q.t), q.limit))
      [] q.kind = "Specific" -> Ok(iter_vertex_values(self, q.ids))
      [] q.kind = "Pipe" ->
            pipe_vertices(self, q, get_edge_values_by_query(self, q.inner))
      [] q.kind = "PropertyPresence" ->
            vertices_with_property_presence(self,
                get_all_vertices_with_property(self, q.name))
      [] q.kind = "PropertyValue" ->
            IF q.name \in DOMAIN self.vertex_property_values
            THEN LET container == self.vertex_property_values[q.name]
                 IN  IF q.value \in DOMAIN container
                     THEN Ok(iter_vertex_values(self, UuidsFrom(container[q.value], UuidDefault)))
                     ELSE Ok(<<>>)
            ELSE NotIndexed
      [] q.kind = "PipePropertyPresence" ->
            IF q.name \in DOMAIN self.vertex_property_values
            THEN pipe_property_presence(q, get_all_vertices_with_property(self, q.name),
                                        get_vertex_values_by_query(self, q.inner))
            ELSE NotIndexed
      [] q.kind = "PipePropertyValue" -> Panic

get_edge_values_by_query(self, q) ==
    CASE q.kind = "Specific" -> Ok(iter_edge_values(self, q.keys))
      [] q.kind = "Pipe" -> pipe_edges(self, q, get_vertex_values_by_query(self, q.inner))
      [] q.kind = "PropertyPresence" -> Panic
      [] q.kind = "PropertyValue" -> Panic
      [] q.kind = "PipePropertyPresence" -> Panic
      [] q.kind = "PipePropertyValue" -> Panic

(***************************************************************************)
(* InternalMemoryDatastore::delete_edges and ::delete_vertices             *)
(***************************************************************************)
\* delete_edge that removes the key itself, not its reverse, from reversed_edges
delete_edge_unreversed(self, edge_key) ==
    LET from == <<edge_key, EmptyString>>
        deletable_edge_properties ==
            TakeWhile(EdgePropertyKeysFrom(DOMAIN self.edge_properties, from),
                      LAMBDA property_key : property_key[1] = edge_key)
        removed == SeqRange(deletable_edge_properties)
    IN  [self EXCEPT
            !.edges = MapRemove(self.edges, edge_key),
            !.reversed_edges = MapRemove(self.reversed_edges, edge_key),
            !.edge_properties = [k \in DOMAIN self.edge_properties \ removed |->
                                    self.edge_properties[k]]]

\* delete_edge that leaves the edge's properties behind
delete_edge_keep_properties(self, edge_key) ==
    [self EXCEPT
        !.edges = MapRemove(self.edges, edge_key),
        !.reversed_edges = MapRemove(self.reversed_edges, EdgeKeyReversed(edge_key))]

delete_edge(self, edge_key) ==
    LET from == <<edge_key, EmptyString>>
        deletable_edge_properties ==
            TakeWhile(EdgePropertyKeysFrom(DOMAIN self.edge_properties, from),
                      LAMBDA property_key : property_key[1] = edge_key)
        removed == SeqRange(deletable_edge_properties)
    IN  [self EXCEPT
            !.edges = MapRemove(self.edges, edge_key),
            !.reversed_edges = MapRemove(self.reversed_edges, EdgeKeyReversed(edge_key)),
            !.edge_properties = [k \in DOMAIN self.edge_properties \ removed |->
                                    self.edge_properties[k]]]

\* delete_edges that stops after the first edge of the list
delete_edges_first(self, edges) ==
    IF edges = <<>> THEN self ELSE delete_edge(self, Head(edges))

RECURSIVE delete_edges(_, _)
delete_edges(self, edges) ==
    IF edges = <<>> THEN self
    ELSE delete_edges(delete_edge(self, Head(edges)), Tail(edges))

\* delete_vertex that collects only the edges leaving the vertex
delete_vertex_outbound_only(self, vertex_id) ==
    LET from == <<vertex_id, EmptyString>>
        deletable_vertex_properties ==
            TakeWhile(VertexPropertyKeysFrom(DOMAIN self.vertex_properties, from),
                      LAMBDA property_key : property_key[1] = vertex_id)
        removed == SeqRange(deletable_vertex_properties)
        deletable_edges ==
            SelectSeq(EdgeKeysFrom(DOMAIN self.edges,
                                   EdgeKeyNew(UuidDefault, TypeDefault, UuidDefault)),
                      LAMBDA edge_key : edge_key.outbound_id = vertex_id)
        without == [self EXCEPT
                       !.vertices = MapRemove(self.vertices, vertex_id),
                       !.vertex_properties =
                           [k \in DOMAIN self.vertex_properties \ removed |->
                               self.vertex_properties[k]]]
    IN  delete_edges(without, deletable_edges)

\* delete_vertex that leaves the vertex's properties behind
delete_vertex_keep_properties(self, vertex_id) ==
    LET deletable_edges ==
            SelectSeq(EdgeKeysFrom(DOMAIN self.edges,
                                   EdgeKeyNew(UuidDefault, TypeDefault, UuidDefault)),
                      LAMBDA edge_key : \/ edge_key.outbound_id = vertex_id
                                        \/ edge_key.inbound_id = vertex_id)
        without == [self EXCEPT !.vertices = MapRemove(self.vertices, vertex_id)]
    IN  delete_edges(without, deletable_edges)

delete_vertex(self, vertex_id) ==
    LET from == <<vertex_id, EmptyString>>
        deletable_vertex_properties ==
            TakeWhile(VertexPropertyKeysFrom(DOMAIN self.vertex_properties, from),
                      LAMBDA property_key : property_key[1] = vertex_id)
        removed == SeqRange(deletable_vertex_properties)
        deletable_edges ==
            SelectSeq(EdgeKeysFrom(DOMAIN self.edges,
                                   EdgeKeyNew(UuidDefault, TypeDefault, UuidDefault)),
                      LAMBDA edge_key : \/ edge_key.outbound_id = vertex_id
                                        \/ edge_key.inbound_id = vertex_id)
        without == [self EXCEPT
                       !.vertices = MapRemove(self.vertices, vertex_id),
                       !.vertex_properties =
                           [k \in DOMAIN self.vertex_properties \ removed |->
                               self.vertex_properties[k]]]
    IN  delete_edges(without, deletable_edges)

\* delete_vertices that stops after the first vertex of the list
delete_vertices_first(self, vertices) ==
    IF vertices = <<>> THEN self ELSE delete_vertex(self, Head(vertices))

RECURSIVE delete_vertices(_, _)
delete_vertices(self, vertices) ==
    IF vertices = <<>> THEN self
    ELSE delete_vertices(delete_vertex(self, Head(vertices)), Tail(vertices))

(* The state: the datastore behind Arc<RwLock<..>>, the lock's poison      *)
(* flag (set when a thread panics while it holds the write guard), and     *)
(* what the last call returned.                                            *)
(***************************************************************************)
\* datastore, poisoned: the InternalMemoryDatastore and its RwLock's poison
\* flag; lastOp: what the last call returned.  lock, indexing: who holds the
\* RwLock, and the locals of an index_vertex_property call in progress.
\* files, syncing: the image file and the temporary file, and the position of
\* a sync call in progress.  rdb, scanning: the tables of a RocksdbDatastore
\* and the locals of an index read in progress on it.
VARIABLES datastore, poisoned, lastOp, lock, indexing, files, syncing, rdb, scanning,
          transactions, creating

vars == <<datastore, poisoned, lastOp, lock, indexing, files, syncing, rdb, scanning,
         transactions, creating>>

\* what the calls made in one step leave alone
inProgress == <<lock, indexing, files, syncing, rdb, scanning, transactions, creating>>

\* op: the method; err: Ok, NotIndexed or Panic; flag: the bool a create
\* returns; count: the number of owners its query gave a mutation; rows: the
\* rows a read returns
Returned(op, err, flag, count, rows) ==
    [op |-> op, err |-> err, flag |-> flag, count |-> count, rows |-> rows]

\* no index_vertex_property call in progress
NotIndexing ==
    [pc |-> "idle", name |-> None, property_container |-> EmptyMap, scanned |-> EmptyMap]

\* a file that does not exist, and a file with its contents
NoFile == [exists |-> FALSE, bytes |-> <<>>]

File(bytes) == [exists |-> TRUE, bytes |-> bytes]

\* no sync call in progress
NotSyncing == [pc |-> "idle", image |-> <<>>]

\* a RocksdbDatastore opened on an empty directory
RocksdbDatastore == [vertices |-> EmptyMap, vertex_property_values |-> {}]

\* no index read in progress
NotScanning ==
    [pc |-> "idle", name |-> None, value |-> None, iter |-> <<>>, vertices |-> <<>>, seen |-> {}]

\* the transactions open at one time, and the threads calling into one
\* RocksdbDatastore
MaxTransactions == 2

MaxThreads == 2

Threads == 1..MaxThreads

\* a thread that is not inside create_vertex
NotCreating ==
    [pc |-> "idle", id |-> None, t |-> None, exists |-> FALSE, inserted |-> FALSE]

Init ==
    /\ datastore = InternalMemoryDatastore
    /\ poisoned = FALSE
    /\ lastOp = Returned("default", "Ok", FALSE, 0, <<>>)
    /\ lock = "free"
    /\ indexing = NotIndexing
    /\ files = [path |-> NoFile, temp |-> NoFile]
    /\ syncing = NotSyncing
    /\ rdb = RocksdbDatastore
    /\ scanning = NotScanning
    /\ transactions = <<>>
    /\ creating = [thread \in Threads |-> NotCreating]

(***************************************************************************)
(* MemoryTransaction: each operator gives the datastore after the call     *)
(* (self) and the call's result.                                           *)
(***************************************************************************)
\* create_vertex written with insert() in place of entry().or_insert_with()
create_vertex_overwrite(self, id, t) ==
    [self |-> [self EXCEPT !.vertices = MapInsert(self.vertices, id, t)],
     inserted |-> id \notin DOMAIN self.vertices]

create_vertex(self, id, t) ==
    IF id \in DOMAIN self.vertices
    THEN [self |-> self, inserted |-> FALSE]
    ELSE [self |-> [self EXCEPT !.vertices = MapInsert(self.vertices, id, t)],
          inserted |-> TRUE]

CreateVertex(id, t) ==
    LET done == create_vertex(datastore, id, t)
    IN  /\ ~poisoned
        /\ datastore' = done.self
        /\ lastOp' = Returned("create_vertex", "Ok", done.inserted, 0, <<>>)
        /\ UNCHANGED <<poisoned, inProgress>>

\* create_edge that gives up only when both endpoints are missing
create_edge_either_endpoint(self, key, now1, now2) ==
    IF key.outbound_id \notin DOMAIN self.vertices /\ key.inbound_id \notin DOMAIN self.vertices
    THEN [self |-> self, created |-> FALSE]
    ELSE [self |-> [self EXCEPT
                       !.edges = MapInsert(self.edges, key, now1),
                       !.reversed_edges =
                           MapInsert(self.reversed_edges, EdgeKeyReversed(key), now2)],
          created |-> TRUE]

\* create_edge that reports an edge it finds already stored as not created
create_edge_if_new(self, key, now1, now2) ==
    IF key.outbound_id \notin DOMAIN self.vertices \/ key.inbound_id \notin DOMAIN self.vertices
    THEN [self |-> self, created |-> FALSE]
    ELSE [self |-> [self EXCEPT
                       !.edges = MapInsert(self.edges, key, now1),
                       !.reversed_edges =
                           MapInsert(self.reversed_edges, EdgeKeyReversed(key), now2)],
          created |-> key \notin DOMAIN self.edges]

\* now1 and now2 are the two readings of Utc::now()
create_edge(self, key, now1, now2) ==
    IF key.outbound_id \notin DOMAIN self.vertices \/ key.inbound_id \notin DOMAIN self.vertices
    THEN [self |-> self, created |-> FALSE]
    ELSE [self |-> [self EXCEPT
                       !.edges = MapInsert(self.edges, key, now1),
                       !.reversed_edges =
                           MapInsert(self.reversed_edges, EdgeKeyReversed(key), now2)],
          created |-> TRUE]

CreateEdge(key, now1, now2) ==
    LET done == create_edge(datastore, key, now1, now2)
    IN  /\ ~poisoned
        /\ Cardinality(DOMAIN done.self.edges) <= MaxEdges
        /\ datastore' = done.self
        /\ lastOp' = Returned("create_edge", "Ok", done.created, 0, <<>>)
        /\ UNCHANGED <<poisoned, inProgress>>

VertexIds(found) == [i \in 1..Len(found.val) |-> found.val[i].id]

EdgeKeysOf(found) == [i \in 1..Len(found.val) |-> found.val[i].key]

\* a mutation through a query: the query's error returns early and leaves the
\* datastore as it is
delete_found_vertices(self, found) ==
    IF found.err = "Ok" THEN delete_vertices(self, VertexIds(found)) ELSE self

delete_found_edges(self, found) ==
    IF found.err = "Ok" THEN delete_edges(self, EdgeKeysOf(found)) ELSE self

transaction_delete_vertices(self, q) ==
    delete_found_vertices(self, get_vertex_values_by_query(self, q))

transaction_delete_edges(self, q) ==
    delete_found_edges(self, get_edge_values_by_query(self, q))

RECURSIVE InsertAll(_, _, _, _)
InsertAll(m, owners, name, value) ==
    IF owners = <<>> THEN m
    ELSE InsertAll(MapInsert(m, <<Head(owners), name>>, value), Tail(owners), name, value)

RECURSIVE RemoveAll(_, _, _)
RemoveAll(m, owners, name) ==
    IF owners = <<>> THEN m
    ELSE RemoveAll(MapRemove(m, <<Head(owners), name>>), Tail(owners), name)

\* set_vertex_properties that leaves the store alone when the value is null
set_vertex_properties_unless_null(self, found, name, value) ==
    IF found.err = "Ok" /\ value # JsonNull
    THEN [self EXCEPT !.vertex_properties =
             InsertAll(self.vertex_properties, VertexIds(found), name, value)]
    ELSE self

set_found_vertex_properties(self, found, name, value) ==
    IF found.err = "Ok"
    THEN [self EXCEPT !.vertex_properties =
             InsertAll(self.vertex_properties, VertexIds(found), name, value)]
    ELSE self

\* delete_vertex_properties that also takes the name out of the index
delete_vertex_properties_and_index(self, found, name) ==
    IF found.err = "Ok"
    THEN [self EXCEPT !.vertex_properties =
                          RemoveAll(self.vertex_properties, VertexIds(found), name),
                      !.vertex_property_values = MapRemove(self.vertex_property_values, name)]
    ELSE self

\* delete_vertex_properties that removes the property from every vertex
delete_property_of_every_vertex(self, found, name) ==
    IF found.err = "Ok"
    THEN [self EXCEPT !.vertex_properties =
             RemoveAll(self.vertex_properties,
                       UuidsFrom(DOMAIN self.vertices, UuidDefault), name)]
    ELSE self

delete_found_vertex_properties(self, found, name) ==
    IF found.err = "Ok"
    THEN [self EXCEPT !.vertex_properties =
             RemoveAll(self.vertex_properties, VertexIds(found), name)]
    ELSE self

set_found_edge_properties(self, found, name, value) ==
    IF found.err = "Ok"
    THEN [self EXCEPT !.edge_properties =
             InsertAll(self.edge_properties, EdgeKeysOf(found), name, value)]
    ELSE self

delete_found_edge_properties(self, found, name) ==
    IF found.err = "Ok"
    THEN [self EXCEPT !.edge_properties =
             RemoveAll(self.edge_properties, EdgeKeysOf(found), name)]
    ELSE self

\* set_vertex_properties that trusts the ids of a specific query to exist
set_vertex_properties_of_named_ids(self, q, name, value) ==
    IF q.kind = "Specific"
    THEN [self EXCEPT !.vertex_properties = InsertAll(self.vertex_properties, q.ids, name, value)]
    ELSE set_found_vertex_properties(self, get_vertex_values_by_query(self, q), name, value)

set_vertex_properties(self, q, name, value) ==
    set_found_vertex_properties(self, get_vertex_values_by_query(self, q), name, value)

delete_vertex_properties(self, q, name) ==
    delete_found_vertex_properties(self, get_vertex_values_by_query(self, q), name)

set_edge_properties(self, q, name, value) ==
    set_found_edge_properties(self, get_edge_values_by_query(self, q), name, value)

delete_edge_properties(self, q, name) ==
    delete_found_edge_properties(self, get_edge_values_by_query(self, q), name)

\* the call holds the write guard while it evaluates its query: a panic
\* (todo!()) unwinds through the guard and poisons the lock
Mutate(op, found, after) ==
    /\ ~poisoned
    /\ datastore' = after
    /\ poisoned' = (found.err = "Panic")
    /\ lastOp' = Returned(op, found.err, FALSE, Len(found.val), <<>>)
    /\ UNCHANGED inProgress

DeleteVertices(q) ==
    Mutate("delete_vertices", get_vertex_values_by_query(datastore, q),
           transaction_delete_vertices(datastore, q))

DeleteEdges(q) ==
    Mutate("delete_edges", get_edge_values_by_query(datastore, q),
           transaction_delete_edges(datastore, q))

SetVertexProperties(q, name, value) ==
    Mutate("set_vertex_properties", get_vertex_values_by_query(datastore, q),
           set_vertex_properties(datastore, q, name, value))

DeleteVertexProperties(q, name) ==
    Mutate("delete_vertex_properties", get_vertex_values_by_query(datastore, q),
           delete_vertex_properties(datastore, q, name))

SetEdgeProperties(q, name, value) ==
    Mutate("set_edge_properties", get_edge_values_by_query(datastore, q),
           set_edge_properties(datastore, q, name, value))

DeleteEdgeProperties(q, name) ==
    Mutate("delete_edge_properties", get_edge_values_by_query(datastore, q),
           delete_edge_properties(datastore, q, name))

\* reads hold the read guard, which a panic does not poison
GetVertices(q) ==
    LET found == get_vertex_values_by_query(datastore, q)
    IN  /\ ~poisoned
        /\ lastOp' = Returned("get_vertices", found.err, FALSE, 0, found.val)
        /\ UNCHANGED <<datastore, poisoned, inProgress>>

GetEdges(q) ==
    LET found == get_edge_values_by_query(datastore, q)
    IN  /\ ~poisoned
        /\ lastOp' = Returned("get_edges", found.err, FALSE, 0, found.val)
        /\ UNCHANGED <<datastore, poisoned, inProgress>>

(***************************************************************************)
(* MemoryTransaction::get_edge_count                                       *)
(***************************************************************************)
\* get_edge_count that counts the vertex's edges of every type
get_edge_count_of_every_type(self, id, t, direction) ==
    Len(edges_of_vertex(pipe_table(self, direction), id, t))

get_edge_count(self, id, t, direction) ==
    LET lower_bound == IF t # None
                       THEN EdgeKeyNew(id, t, UuidDefault)
                       ELSE EdgeKeyNew(id, TypeDefault, UuidDefault)
        range == EdgeKeysFrom(DOMAIN pipe_table(self, direction), lower_bound)
    IN  Len(TakeWhile(range,
                      LAMBDA k : IF t # None THEN k.outbound_id = id /\ k.t = t
                                 ELSE k.outbound_id = id))

GetEdgeCount(id, t, direction) ==
    /\ ~poisoned
    /\ lastOp' = Returned("get_edge_count", "Ok", FALSE,
                          get_edge_count(datastore, id, t, direction), <<>>)
    /\ UNCHANGED <<datastore, poisoned, inProgress>>

(***************************************************************************)
(* Property reads: get_vertex_properties, get_all_vertex_properties,       *)
(* get_edge_properties, get_all_edge_properties.                           *)
(***************************************************************************)
\* crate::util::next_uuid: the successor of a uuid, an error at the maximum
next_uuid(id) ==
    IF id < MaxUuid THEN [err |-> "Ok", val |-> id + 1]
    ELSE [err |-> "OutOfRange", val |-> id]

\* properties.map(|(n, p)| NamedProperty::new(n.1, p)).collect()
named_properties(properties, keys) ==
    [i \in 1..Len(keys) |-> [name |-> keys[i][2], value |-> properties[keys[i]]]]

\* the matched vertices that have the property, each with its value
vertex_property_rows(self, vertices, name) ==
    LET having == SelectSeq(vertices,
                            LAMBDA v : <<v.id, name>> \in DOMAIN self.vertex_properties)
    IN  [i \in 1..Len(having) |->
            [id |-> having[i].id, value |-> self.vertex_properties[<<having[i].id, name>>]]]

get_found_vertex_properties(self, found, name) ==
    IF found.err # "Ok" THEN found
    ELSE Ok(vertex_property_rows(self, found.val, name))

get_vertex_properties(self, q, name) ==
    get_found_vertex_properties(self, get_vertex_values_by_query(self, q), name)

\* datastore.vertex_properties.range(from..to)
vertex_properties_range(self, id, to) ==
    TakeWhile(VertexPropertyKeysFrom(DOMAIN self.vertex_properties, <<id, EmptyString>>),
              LAMBDA key : VertexPropertyKeyLess(key, <<to, EmptyString>>))

\* an all-properties read whose range starts one owner too early
all_vertex_property_rows_from_previous(self, vertices) ==
    [i \in 1..Len(vertices) |->
        [vertex |-> vertices[i],
         props  |-> named_properties(self.vertex_properties,
                        vertex_properties_range(self,
                            IF vertices[i].id > UuidDefault
                            THEN vertices[i].id - 1 ELSE vertices[i].id,
                            next_uuid(vertices[i].id).val))]]

\* one entry per matched vertex, with or without properties
all_vertex_property_rows(self, vertices) ==
    [i \in 1..Len(vertices) |->
        [vertex |-> vertices[i],
         props  |-> named_properties(self.vertex_properties,
                        vertex_properties_range(self, vertices[i].id,
                                                next_uuid(vertices[i].id).val))]]

\* next_uuid(id).unwrap() panics at the first matched vertex that has the
\* maximum uuid
get_found_all_vertex_properties(self, found) ==
    IF found.err # "Ok" THEN found
    ELSE IF \E i \in 1..Len(found.val) : next_uuid(found.val[i].id).err # "Ok" THEN Panic
    ELSE Ok(all_vertex_property_rows(self, found.val))

get_all_vertex_properties(self, q) ==
    get_found_all_vertex_properties(self, get_vertex_values_by_query(self, q))

edge_property_rows(self, edges, name) ==
    LET having == SelectSeq(edges,
                            LAMBDA e : <<e.key, name>> \in DOMAIN self.edge_properties)
    IN  [i \in 1..Len(having) |->
            [key |-> having[i].key, value |-> self.edge_properties[<<having[i].key, name>>]]]

get_found_edge_properties(self, found, name) ==
    IF found.err # "Ok" THEN found
    ELSE Ok(edge_property_rows(self, found.val, name))

get_edge_properties(self, q, name) ==
    get_found_edge_properties(self, get_edge_values_by_query(self, q), name)

\* datastore.edge_properties.range(from..).take_while(|((key, _), _)| key == id)
edge_properties_range(self, id) ==
    TakeWhile(EdgePropertyKeysFrom(DOMAIN self.edge_properties, <<id, EmptyString>>),
              LAMBDA key : key[1] = id)

all_edge_property_rows(self, edges) ==
    [i \in 1..Len(edges) |->
        [edge  |-> edges[i],
         props |-> named_properties(self.edge_properties,
                                    edge_properties_range(self, edges[i].key))]]

get_found_all_edge_properties(self, found) ==
    IF found.err # "Ok" THEN found
    ELSE Ok(all_edge_property_rows(self, found.val))

get_all_edge_properties(self, q) ==
    get_found_all_edge_properties(self, get_edge_values_by_query(self, q))

Read(op, found) ==
    /\ ~poisoned
    /\ lastOp' = Returned(op, found.err, FALSE, Len(found.val), found.val)
    /\ UNCHANGED <<datastore, poisoned, inProgress>>

GetVertexProperties(q, name) ==
    Read("get_vertex_properties", get_vertex_properties(datastore, q, name))

GetAllVertexProperties(q) ==
    Read("get_all_vertex_properties", get_all_vertex_properties(datastore, q))

GetEdgeProperties(q, name) ==
    Read("get_edge_properties", get_edge_properties(datastore, q, name))

GetAllEdgeProperties(q) ==
    Read("get_all_edge_properties", get_all_edge_properties(datastore, q))

(***************************************************************************)
(* MemoryDatastore::index_vertex_property / index_edge_property            *)
(***************************************************************************)
\* the owners that have the property now, by value, merged into the container
\* the name already has
index_property(owners, properties, property_values, name) ==
    LET having == { o \in owners : <<o, name>> \in DOMAIN properties }
        found == { properties[<<o, name>>] : o \in having }
        property_container == [value \in found |->
                                  { o \in having : properties[<<o, name>>] = value }]
        existing == IF name \in DOMAIN property_values THEN property_values[name] ELSE EmptyMap
        merged == [value \in DOMAIN existing \cup found |->
                      (IF value \in DOMAIN existing THEN existing[value] ELSE {})
                      \cup (IF value \in found THEN property_container[value] ELSE {})]
    IN  MapInsert(property_values, name, merged)

index_vertex_property(self, name) ==
    [self EXCEPT !.vertex_property_values =
        index_property(DOMAIN self.vertices, self.vertex_properties,
                       self.vertex_property_values, name)]

index_edge_property(self, name) ==
    [self EXCEPT !.edge_property_values =
        index_property(DOMAIN self.edges, self.edge_properties,
                       self.edge_property_values, name)]

IndexVertexProperty(name) ==
    /\ ~poisoned
    /\ datastore' = index_vertex_property(datastore, name)
    /\ lastOp' = Returned("index_vertex_property", "Ok", FALSE, 0, <<>>)
    /\ UNCHANGED <<poisoned, inProgress>>

IndexEdgeProperty(name) ==
    /\ ~poisoned
    /\ datastore' = index_edge_property(datastore, name)
    /\ lastOp' = Returned("index_edge_property", "Ok", FALSE, 0, <<>>)
    /\ UNCHANGED <<poisoned, inProgress>>

\* RwLock::read()/write() give Err on a poisoned lock and unwrap() panics
PoisonedLock ==
    /\ poisoned
    /\ lastOp' = Returned("lock", "Panic", FALSE, 0, <<>>)
    /\ UNCHANGED <<datastore, poisoned, inProgress>>

(***************************************************************************)
(* The queries the operations are called with.                             *)
(***************************************************************************)
Directions == {"Outbound", "Inbound"}

Limits == {0, 1, MaxLimit}

SpecificVertexQuery(ids) == [kind |-> "Specific", ids |-> ids]

RangeVertexQuery(start_id, t, limit) ==
    [kind |-> "Range", start_id |-> start_id, t |-> t, limit |-> limit]

PipeVertexQuery(inner, direction, t, limit) ==
    [kind |-> "Pipe", inner |-> inner, direction |-> direction, t |-> t, limit |-> limit]

PropertyPresenceQuery(name) == [kind |-> "PropertyPresence", name |-> name]

PropertyValueQuery(name, value) == [kind |-> "PropertyValue", name |-> name, value |-> value]

PipePropertyPresenceQuery(inner, name, exists) ==
    [kind |-> "PipePropertyPresence", inner |-> inner, name |-> name, exists |-> exists]

PipePropertyValueQuery(inner, name, value, equal) ==
    [kind |-> "PipePropertyValue", inner |-> inner, name |-> name, value |-> value,
     equal |-> equal]

SpecificEdgeQuery(keys) == [kind |-> "Specific", keys |-> keys]

PipeEdgeQuery(inner, direction, t, high, low, limit) ==
    [kind |-> "Pipe", inner |-> inner, direction |-> direction, t |-> t,
     high |-> high, low |-> low, limit |-> limit]

AllVertices == RangeVertexQuery(None, None, MaxLimit)

SpecificVertexQueries == { SpecificVertexQuery(<<a>>) : a \in Uuids }

SimpleVertexQueries ==
    SpecificVertexQueries
    \cup { SpecificVertexQuery(<<UuidDefault, b>>) : b \in Uuids \ {UuidDefault} }
    \cup { RangeVertexQuery(s, t, l) : s \in {None, 1}, t \in {None} \cup Types, l \in Limits }

VertexPropertyQueries ==
    { PropertyPresenceQuery(n) : n \in Names }
    \cup { PropertyValueQuery(n, v) : n \in Names, v \in Values }
    \cup { PipePropertyPresenceQuery(AllVertices, n, e) : n \in Names, e \in BOOLEAN }
    \cup { PipePropertyValueQuery(AllVertices, n, v, TRUE) : n \in Names, v \in Values }

VertexToEdgeQueries ==
    { PipeEdgeQuery(SpecificVertexQuery(<<a>>), d, t, None, None, l) :
        a \in Uuids, d \in Directions, t \in {None} \cup Types, l \in {1, MaxLimit} }

SpecificEdgeQueries == { SpecificEdgeQuery(<<key>>) : key \in EdgeKeys }

EdgePropertyQueries ==
    { PropertyPresenceQuery(n) : n \in Names }
    \cup { PropertyValueQuery(n, v) : n \in Names, v \in Values }
    \cup { PipePropertyPresenceQuery(SpecificEdgeQuery(<<key>>), n, TRUE) :
             key \in {EdgeKeyNew(UuidDefault, 1, UuidDefault)}, n \in Names }
    \cup { PipePropertyValueQuery(SpecificEdgeQuery(<<key>>), n, v, TRUE) :
             key \in {EdgeKeyNew(UuidDefault, 1, UuidDefault)}, n \in Names, v \in Values }

EdgeToVertexQueries ==
    { PipeVertexQuery(PipeEdgeQuery(SpecificVertexQuery(<<a>>), "Outbound",
                                    None, None, None, l1),
                      d, None, l2) :
        a \in Uuids, d \in Directions, l1 \in {1, MaxLimit}, l2 \in {1, MaxLimit} }

VertexQueries == SimpleVertexQueries \cup VertexPropertyQueries \cup EdgeToVertexQueries

EdgeQueries == SpecificEdgeQueries \cup VertexToEdgeQueries \cup EdgePropertyQueries

(***************************************************************************)
(* Database::get: the evaluator of a Query with Include and Count stages.  *)
(* It walks the query and pushes QueryOutputValues onto an output list: an *)
(* Include runs its inner query and pushes a copy of its output; a stage   *)
(* pops the most recent output, transforms it and pushes the result, so    *)
(* what an Include produced stays on the list.                             *)
(***************************************************************************)
IncludeQuery(inner) == [kind |-> "Include", inner |-> inner]

CountQuery(inner) == [kind |-> "Count", inner |-> inner]

\* QueryOutputValue::Vertices, ::Edges, ::Count
Vertices(rows) == [tag |-> "Vertices", rows |-> rows, count |-> 0]

Edges(rows) == [tag |-> "Edges", rows |-> rows, count |-> 0]

Count(n) == [tag |-> "Count", rows |-> <<>>, count |-> n]

Unsupported == [err |-> "Unsupported", val |-> <<>>]

\* output.pop()
popped(output) == SubSeq(output, 1, Len(output) - 1)

\* Query::Pipe on the popped value: vertices give their edges in the
\* direction of the pipe, edges give the vertex at that end
piped(self, q, value) ==
    CASE value.tag = "Vertices" ->
            Ok(Edges(pipe_edges_of(pipe_table(self, q.direction), q, value.rows)))
      [] value.tag = "Edges" ->
            Ok(Vertices(pipe_vertices(self, q, Ok(value.rows)).val))
      [] OTHER -> Unsupported

\* Query::PipePropertyPresence on the popped vertices
piped_presence(self, q, value) ==
    IF value.tag # "Vertices" THEN Unsupported
    ELSE IF q.name \notin DOMAIN self.vertex_property_values THEN NotIndexed
    ELSE Ok(Vertices(pipe_property_presence(q, get_all_vertices_with_property(self, q.name),
                                            Ok(value.rows)).val))

\* Query::Count on the popped value
counted(value) ==
    IF value.tag = "Count" THEN Unsupported ELSE Ok(Count(Len(value.rows)))

\* a stage pops the most recent output and pushes the transformed value
pushed(inner, value) ==
    IF value.err # "Ok" THEN value
    ELSE Ok(Append(popped(inner.val), value.val))

\* an Include that pushes nothing
included_without_copy(inner) == inner

\* Query::Include once its inner query has run: pushes a copy of its output
included(inner) ==
    IF inner.err # "Ok" THEN inner
    ELSE Ok(Append(inner.val, inner.val[Len(inner.val)]))

pipe_stage(self, q, inner) ==
    IF inner.err # "Ok" THEN inner
    ELSE pushed(inner, piped(self, q, inner.val[Len(inner.val)]))

presence_stage(self, q, inner) ==
    IF inner.err # "Ok" THEN inner
    ELSE pushed(inner, piped_presence(self, q, inner.val[Len(inner.val)]))

count_stage(q, inner) ==
    IF inner.err # "Ok" THEN inner
    ELSE pushed(inner, counted(inner.val[Len(inner.val)]))

RECURSIVE query(_, _, _)

query(self, q, output) ==
    CASE q.kind = "Specific" -> Ok(Append(output, Vertices(iter_vertex_values(self, q.ids))))
      [] q.kind = "Range" ->
            Ok(Append(output, Vertices(get_vertex_values_by_query(self, q).val)))
      [] q.kind = "Pipe" -> pipe_stage(self, q, query(self, q.inner, output))
      [] q.kind = "PipePropertyPresence" -> presence_stage(self, q, query(self, q.inner, output))
      [] q.kind = "Count" -> count_stage(q, query(self, q.inner, output))
      [] q.kind = "Include" -> included(query(self, q.inner, output))

\* Database::get
get(self, q) == query(self, q, <<>>)

Get(q) ==
    LET found == get(datastore, q)
    IN  /\ ~poisoned
        /\ lastOp' = Returned("get", found.err, FALSE, Len(found.val), found.val)
        /\ UNCHANGED <<datastore, poisoned, inProgress>>

(***************************************************************************)
(* index_vertex_property step by step, under the write guard it takes at   *)
(* its start and drops at its return, and the calls that wait for the      *)
(* RwLock while it runs.                                                   *)
(***************************************************************************)
\* a read guard given out whatever the lock's state
read_guard_unchecked(held) == TRUE

\* RwLock::read(): a read guard is given out unless a write guard is held
read_guard(held) == held # "write"

\* a write guard given out whatever the lock's state
write_guard_unchecked(held) == TRUE

\* RwLock::write(): a write guard is given out when no guard is held
write_guard(held) == held = "free"

\* let mut datastore = self.datastore.write().unwrap()
IndexBegin(name) ==
    /\ ~poisoned
    /\ indexing.pc = "idle"
    /\ write_guard(lock)
    /\ lock' = "write"
    /\ indexing' = [NotIndexing EXCEPT !.pc = "scan", !.name = name]
    /\ UNCHANGED <<datastore, poisoned, lastOp, files, syncing, rdb, scanning,
                 transactions, creating>>

\* the loop over datastore.vertices.keys() that fills property_container
scan_vertices(self, name) ==
    LET having == { id \in DOMAIN self.vertices : <<id, name>> \in DOMAIN self.vertex_properties }
    IN  [value \in { self.vertex_properties[<<id, name>>] : id \in having } |->
            { id \in having : self.vertex_properties[<<id, name>>] = value }]

IndexScan ==
    /\ indexing.pc = "scan"
    /\ indexing' = [indexing EXCEPT !.pc = "entry",
                                    !.property_container = scan_vertices(datastore, indexing.name),
                                    !.scanned = scan_vertices(datastore, indexing.name)]
    /\ UNCHANGED <<datastore, poisoned, lastOp, lock, files, syncing, rdb, scanning,
                 transactions, creating>>

\* vertex_property_values.entry(name).or_insert_with(|| HashMap::new())
entry_or_insert(m, k, v) == IF k \in DOMAIN m THEN m ELSE MapInsert(m, k, v)

IndexEntry ==
    /\ indexing.pc = "entry"
    /\ datastore' = [datastore EXCEPT !.vertex_property_values =
                         entry_or_insert(@, indexing.name, EmptyMap)]
    /\ indexing' = [indexing EXCEPT !.pc = "merge"]
    /\ UNCHANGED <<poisoned, lastOp, lock, files, syncing, rdb, scanning,
                 transactions, creating>>

\* one turn of the loop over property_container: the ids found for value
\* are inserted into the entry the existing container has for it
merge_value(self, name, value, ids) ==
    [self EXCEPT !.vertex_property_values[name] =
        MapInsert(@, value, (IF value \in DOMAIN @ THEN @[value] ELSE {}) \cup ids)]

IndexMerge(value) ==
    /\ indexing.pc = "merge"
    /\ value \in DOMAIN indexing.property_container
    /\ datastore' = merge_value(datastore, indexing.name, value,
                                indexing.property_container[value])
    /\ indexing' = [indexing EXCEPT !.property_container = MapRemove(@, value)]
    /\ UNCHANGED <<poisoned, lastOp, lock, files, syncing, rdb, scanning,
                 transactions, creating>>

\* Ok(()): the write guard is dropped
IndexEnd ==
    /\ indexing.pc = "merge"
    /\ DOMAIN indexing.property_container = {}
    /\ lock' = "free"
    /\ indexing' = [indexing EXCEPT !.pc = "idle"]
    /\ lastOp' = Returned("index_vertex_property", "Ok", FALSE, 0, <<>>)
    /\ UNCHANGED <<datastore, poisoned, files, syncing, rdb, scanning,
                 transactions, creating>>

(***************************************************************************)
(* The image of the datastore: bincode over the derived Serialize and      *)
(* Deserialize of InternalMemoryDatastore.  The seven tables are written   *)
(* in the order of the struct's fields, each as the sequence of its        *)
(* entries: a BTreeMap in key order, a HashMap or HashSet in the order its *)
(* iterator happens to give.  Reading collects the entries into maps.      *)
(***************************************************************************)
\* the sequences that list every element of S once
Orders(S) ==
    { o \in [1..Cardinality(S) -> S] : \A i, j \in 1..Cardinality(S) : o[i] = o[j] => i = j }

RECURSIVE Product(_)
\* the sequences that take their i-th element from the i-th set
Product(sets) ==
    IF sets = <<>> THEN { <<>> }
    ELSE { <<x>> \o rest : x \in Head(sets), rest \in Product(Tail(sets)) }

\* EdgeKey: its three fields in order
encode_key(key) == <<key.outbound_id, key.t, key.inbound_id>>

decode_key(b) == EdgeKeyNew(b[1], b[2], b[3])

\* DateTime<Utc>: written as a string
encode_datetime(t) == <<t>>

decode_datetime(b) == b[1]

\* JsonValue: a tag for the kind of value, then the value
encode_json(v) == IF v = JsonNull THEN <<0>> ELSE <<1, v>>

decode_json(b) == IF b[1] = 0 THEN JsonNull ELSE b[2]

serialize_vertices(m, keys) == [i \in 1..Len(keys) |-> <<keys[i], m[keys[i]]>>]

serialize_edges(m, keys) ==
    [i \in 1..Len(keys) |-> <<encode_key(keys[i]), encode_datetime(m[keys[i]])>>]

serialize_vertex_properties(m, keys) ==
    [i \in 1..Len(keys) |-> <<keys[i], encode_json(m[keys[i]])>>]

serialize_edge_properties(m, keys) ==
    [i \in 1..Len(keys) |->
        <<<<encode_key(keys[i][1]), keys[i][2]>>, encode_json(m[keys[i]])>>]

\* HashMap<JsonValue, HashSet<_>>: the values in some order, each with its
\* owners in some order
serialize_container(container) ==
    UNION { Product([i \in 1..Len(o) |->
                        { <<encode_json(o[i]), owners>> : owners \in Orders(container[o[i]]) }]) :
            o \in Orders(DOMAIN container) }

\* HashMap<String, HashMap<JsonValue, HashSet<_>>>
serialize_property_values(property_values) ==
    UNION { Product([i \in 1..Len(o) |->
                        { <<o[i], c>> : c \in serialize_container(property_values[o[i]]) }]) :
            o \in Orders(DOMAIN property_values) }

\* the owners of an edge index entry, each key as its fields
encode_keys(owners) == [i \in 1..Len(owners) |-> encode_key(owners[i])]

encode_edge_container(c) == [i \in 1..Len(c) |-> <<c[i][1], encode_keys(c[i][2])>>]

encode_edge_property_values(image) ==
    [i \in 1..Len(image) |-> <<image[i][1], encode_edge_container(image[i][2])>>]

\* bincode::serialize_into(buf, &*datastore): the images the datastore can
\* be written as
serialize(self) ==
    { << serialize_vertices(self.vertices, UuidsFrom(DOMAIN self.vertices, UuidDefault)),
         serialize_edges(self.edges,
             EdgeKeysFrom(DOMAIN self.edges, EdgeKeyNew(UuidDefault, TypeDefault, UuidDefault))),
         serialize_edges(self.reversed_edges,
             EdgeKeysFrom(DOMAIN self.reversed_edges,
                          EdgeKeyNew(UuidDefault, TypeDefault, UuidDefault))),
         serialize_vertex_properties(self.vertex_properties,
             VertexPropertyKeysFrom(DOMAIN self.vertex_properties, <<UuidDefault, EmptyString>>)),
         serialize_edge_properties(self.edge_properties,
             EdgePropertyKeysFrom(DOMAIN self.edge_properties,
                 <<EdgeKeyNew(UuidDefault, TypeDefault, UuidDefault), EmptyString>>)),
         vertex_index,
         encode_edge_property_values(edge_index) >> :
      vertex_index \in serialize_property_values(self.vertex_property_values),
      edge_index \in serialize_property_values(self.edge_property_values) }

\* the map collected from a sequence of entries: a later entry replaces an
\* earlier one with the same key
collect(entries) ==
    [k \in { entries[i][1] : i \in 1..Len(entries) } |->
        entries[CHOOSE i \in 1..Len(entries) :
                    /\ entries[i][1] = k
                    /\ \A j \in 1..Len(entries) : j > i => entries[j][1] # k][2]]

deserialize_edges(b) ==
    collect([i \in 1..Len(b) |-> <<decode_key(b[i][1]), decode_datetime(b[i][2])>>])

deserialize_vertex_properties(b) ==
    collect([i \in 1..Len(b) |-> <<b[i][1], decode_json(b[i][2])>>])

deserialize_edge_properties(b) ==
    collect([i \in 1..Len(b) |->
                <<<<decode_key(b[i][1][1]), b[i][1][2]>>, decode_json(b[i][2])>>])

deserialize_container(b) ==
    collect([i \in 1..Len(b) |-> <<decode_json(b[i][1]), SeqRange(b[i][2])>>])

deserialize_property_values(b) ==
    collect([i \in 1..Len(b) |-> <<b[i][1], deserialize_container(b[i][2])>>])

deserialize_edge_container(b) ==
    collect([i \in 1..Len(b) |->
                <<decode_json(b[i][1]), { decode_key(k) : k \in SeqRange(b[i][2]) }>>])

deserialize_edge_property_values(b) ==
    collect([i \in 1..Len(b) |-> <<b[i][1], deserialize_edge_container(b[i][2])>>])

UnexpectedEof == [err |-> "UnexpectedEof", val |-> InternalMemoryDatastore]

\* a deserialize that leaves the two index tables empty
deserialize_without_indexes(bytes) ==
    IF Len(bytes) < 7 THEN UnexpectedEof
    ELSE Ok([vertices               |-> collect(bytes[1]),
             edges                  |-> deserialize_edges(bytes[2]),
             reversed_edges         |-> deserialize_edges(bytes[3]),
             vertex_properties      |-> deserialize_vertex_properties(bytes[4]),
             edge_properties        |-> deserialize_edge_properties(bytes[5]),
             vertex_property_values |-> EmptyMap,
             edge_property_values   |-> EmptyMap])

\* bincode::deserialize_from(buf): an error when the bytes end before the
\* seventh table does
deserialize(bytes) ==
    IF Len(bytes) < 7 THEN UnexpectedEof
    ELSE Ok([vertices               |-> collect(bytes[1]),
             edges                  |-> deserialize_edges(bytes[2]),
             reversed_edges         |-> deserialize_edges(bytes[3]),
             vertex_properties      |-> deserialize_vertex_properties(bytes[4]),
             edge_properties        |-> deserialize_edge_properties(bytes[5]),
             vertex_property_values |-> deserialize_property_values(bytes[6]),
             edge_property_values   |-> deserialize_edge_property_values(bytes[7])])

(***************************************************************************)
(* MemoryDatastore::sync step by step, a crash of the process, and         *)
(* MemoryDatastore::read and ::create on the persist path.                 *)
(***************************************************************************)
\* let temp_path = NamedTempFile::new()?
SyncBegin ==
    /\ ~poisoned
    /\ syncing.pc = "idle"
    /\ files' = [files EXCEPT !.temp = File(<<>>)]
    /\ syncing' = [syncing EXCEPT !.pc = "lock"]
    /\ UNCHANGED <<datastore, poisoned, lastOp, lock, indexing, rdb, scanning,
                 transactions, creating>>

\* let datastore = self.datastore.read().unwrap()
SyncLock ==
    /\ syncing.pc = "lock"
    /\ read_guard(lock)
    /\ lock' = "read"
    /\ syncing' = [pc |-> "write", image |-> <<>>]
    /\ UNCHANGED <<datastore, poisoned, lastOp, indexing, files, rdb, scanning,
                 transactions, creating>>

\* the images of the store that go on from what is written so far
continuations(self, bytes) ==
    { image \in serialize(self) :
        Len(bytes) < Len(image) /\ \A i \in 1..Len(bytes) : image[i] = bytes[i] }

\* serialize_into reaches the next field of the struct: its image, taken
\* from the store as it is now
next_field(self, bytes) ==
    IF continuations(self, bytes) # {}
    THEN { image[Len(bytes) + 1] : image \in continuations(self, bytes) }
    ELSE { image[Len(bytes) + 1] : image \in serialize(self) }

\* a write that goes to the file at the persist path
written_in_place(fs, chunk) ==
    [fs EXCEPT !.path = File(Append(fs.path.bytes, chunk))]

\* bincode::serialize_into(buf, ..): the next table reaches the temporary file
written(fs, chunk) ==
    [fs EXCEPT !.temp = File(Append(fs.temp.bytes, chunk))]

SyncWrite ==
    /\ syncing.pc = "write"
    /\ \A image \in serialize(datastore) : Len(syncing.image) < Len(image)
    /\ \E chunk \in next_field(datastore, syncing.image) :
           /\ files' = written(files, chunk)
           /\ syncing' = [syncing EXCEPT !.image = Append(@, chunk)]
    /\ UNCHANGED <<datastore, poisoned, lastOp, lock, indexing, rdb, scanning,
                 transactions, creating>>

\* temp_path.persist(persist_path): the temporary file is renamed over the
\* file at the persist path
persist(fs) == [path |-> fs.temp, temp |-> NoFile]

SyncPersist ==
    /\ syncing.pc = "write"
    /\ \A image \in serialize(datastore) : Len(syncing.image) = Len(image)
    /\ files' = persist(files)
    /\ syncing' = [syncing EXCEPT !.pc = "persisted"]
    /\ UNCHANGED <<datastore, poisoned, lastOp, lock, indexing, rdb, scanning,
                 transactions, creating>>

\* Ok(()): the read guard is dropped
SyncEnd ==
    /\ syncing.pc = "persisted"
    /\ lock' = "free"
    /\ syncing' = NotSyncing
    /\ lastOp' = Returned("sync", "Ok", FALSE, 0, <<>>)
    /\ UNCHANGED <<datastore, poisoned, indexing, files, rdb, scanning,
                 transactions, creating>>

\* the process stops at any point of sync; the files stay as they are
Crash ==
    /\ syncing.pc \in {"lock", "write", "persisted"}
    /\ syncing' = [syncing EXCEPT !.pc = "crashed"]
    /\ UNCHANGED <<datastore, poisoned, lastOp, lock, indexing, files, rdb, scanning,
                 transactions, creating>>

\* MemoryDatastore::sync as one step: the files it can leave
sync(self, fs) == { persist([fs EXCEPT !.temp = File(image)]) : image \in serialize(self) }

Sync ==
    /\ ~poisoned
    /\ syncing.pc = "idle"
    /\ read_guard(lock)
    /\ files' \in sync(datastore, files)
    /\ lastOp' = Returned("sync", "Ok", FALSE, 0, <<>>)
    /\ UNCHANGED <<datastore, poisoned, lock, indexing, syncing, rdb, scanning,
                 transactions, creating>>

\* MemoryDatastore::read(path)
read(file) ==
    IF ~file.exists THEN [err |-> "NotFound", val |-> InternalMemoryDatastore]
    ELSE deserialize(file.bytes)

\* a process opens the image: MemoryDatastore::read(path), and
\* MemoryDatastore::create(path) when that fails
ReadImage ==
    /\ syncing.pc \in {"idle", "crashed"}
    /\ datastore' = read(files.path).val
    /\ lock' = "free"
    /\ poisoned' = FALSE
    /\ syncing' = NotSyncing
    /\ lastOp' = Returned("read", read(files.path).err, FALSE, 0, <<>>)
    /\ UNCHANGED <<indexing, files, rdb, scanning,
                 transactions, creating>>

(***************************************************************************)
(* Transactions of one MemoryDatastore, as the script context opens them:  *)
(* each execution of a script calls transaction() on the datastore of the  *)
(* process, works through the handle and drops it when the script returns. *)
(***************************************************************************)
\* MemoryTransaction { datastore }: arc says that the field points at the
\* allocation of the datastore it came from; copy is the data of a handle
\* that has an allocation of its own
MemoryTransaction(arc, copy) == [arc |-> arc, copy |-> copy]

\* a transaction that takes a copy of the data
transaction_of_copy(self) == MemoryTransaction(FALSE, self)

\* MemoryDatastore::transaction: Arc::clone(&self.datastore)
transaction(self) == MemoryTransaction(TRUE, InternalMemoryDatastore)

\* self.datastore.read().unwrap() / .write().unwrap() of a transaction
guarded(trans, self) == IF trans.arc THEN self ELSE trans.copy

\* the transaction global of a script: statics::DATASTORE.transaction()
ScriptTransaction ==
    /\ ~poisoned
    /\ Len(transactions) < MaxTransactions
    /\ transactions' = Append(transactions, transaction(datastore))
    /\ lastOp' = Returned("transaction", "Ok", FALSE, 0, <<>>)
    /\ UNCHANGED <<datastore, poisoned, lock, indexing, files, syncing, rdb, scanning,
                   creating>>

\* what a write through the i-th transaction leaves
written_through(i, after) ==
    IF transactions[i].arc
    THEN [datastore |-> after, transactions |-> transactions]
    ELSE [datastore |-> datastore,
          transactions |-> [transactions EXCEPT ![i] = MemoryTransaction(FALSE, after)]]

\* create_vertex through the i-th transaction
ScriptCreateVertex(i, id, t) ==
    /\ ~poisoned
    /\ i \in DOMAIN transactions
    /\ datastore' =
           written_through(i, create_vertex(guarded(transactions[i], datastore), id, t).self).datastore
    /\ transactions' =
           written_through(i, create_vertex(guarded(transactions[i], datastore), id, t).self).transactions
    /\ lastOp' = Returned("create_vertex",  "Ok",
                          create_vertex(guarded(transactions[i], datastore), id, t).inserted,
                          0, <<[id |-> id, t |-> t]>>)
    /\ UNCHANGED <<poisoned, lock, indexing, files, syncing, rdb, scanning, creating>>

\* delete_vertices through the i-th transaction
ScriptDeleteVertices(i, q) ==
    /\ ~poisoned
    /\ i \in DOMAIN transactions
    /\ datastore' =
           written_through(i, transaction_delete_vertices(guarded(transactions[i], datastore), q)).datastore
    /\ transactions' =
           written_through(i, transaction_delete_vertices(guarded(transactions[i], datastore), q)).transactions
    /\ lastOp' = Returned("delete_vertices", "Ok", FALSE, 0, <<>>)
    /\ UNCHANGED <<poisoned, lock, indexing, files, syncing, rdb, scanning, creating>>

\* get_vertices through the i-th transaction
ScriptGetVertices(i, q) ==
    /\ ~poisoned
    /\ i \in DOMAIN transactions
    /\ lastOp' = Returned("get_vertices", "Ok", FALSE, i,
                          get_vertex_values_by_query(guarded(transactions[i], datastore), q).val)
    /\ UNCHANGED <<datastore, poisoned, lock, indexing, files, syncing, rdb, scanning,
                   transactions, creating>>

\* the script returns: its Lua context and the transactions it opened are
\* dropped
ScriptReturn ==
    /\ transactions # <<>>
    /\ transactions' = Tail(transactions)
    /\ lastOp' = Returned("execute", "Ok", FALSE, 0, <<>>)
    /\ UNCHANGED <<datastore, poisoned, lock, indexing, files, syncing, rdb, scanning,
                   creating>>

(***************************************************************************)
(* The graph: vertices and edges of every type, created and deleted        *)
(* through every query above, the clock standing still.                    *)
(***************************************************************************)
Next ==
    \/ \E id \in Uuids, t \in Types : CreateVertex(id, t)
    \/ \E key \in EdgeKeys : CreateEdge(key, 0, 0)
    \/ \E q \in VertexQueries : DeleteVertices(q)
    \/ \E q \in EdgeQueries : DeleteEdges(q)
    \/ PoisonedLock

Spec == Init /\ [][Next]_vars

(***************************************************************************)
(* The graph with properties: vertices and edges of one type, properties   *)
(* of one value set and deleted on them, owners deleted.                   *)
(***************************************************************************)
OneTypeEdgeKeys == { key \in EdgeKeys : key.t = 1 }

OwnerVertexQueries ==
    SpecificVertexQueries
    \cup { AllVertices, PipePropertyValueQuery(AllVertices, 1, 1, TRUE) }

OwnerEdgeQueries ==
    { SpecificEdgeQuery(<<key>>) : key \in OneTypeEdgeKeys }
    \cup { PipeEdgeQuery(SpecificVertexQuery(<<a>>), d, None, None, None, MaxLimit) :
             a \in Uuids, d \in Directions }

NextProperties ==
    \/ \E id \in Uuids : CreateVertex(id, 1)
    \/ \E key \in OneTypeEdgeKeys : CreateEdge(key, 0, 0)
    \/ \E q \in OwnerVertexQueries : DeleteVertices(q)
    \/ \E q \in OwnerEdgeQueries : DeleteEdges(q)
    \/ \E q \in OwnerVertexQueries, name \in Names : SetVertexProperties(q, name, 1)
    \/ \E q \in OwnerVertexQueries, name \in Names : DeleteVertexProperties(q, name)
    \/ \E q \in OwnerEdgeQueries, name \in Names : SetEdgeProperties(q, name, 1)
    \/ \E q \in OwnerEdgeQueries, name \in Names : DeleteEdgeProperties(q, name)
    \/ PoisonedLock

SpecProperties == Init /\ [][NextProperties]_vars

(***************************************************************************)
(* The vertex property index: vertices of one type, their properties set   *)
(* and deleted, vertices deleted, names indexed, the index queried.        *)
(***************************************************************************)
NextVertexIndex ==
    \/ \E id \in Uuids : CreateVertex(id, 1)
    \/ \E q \in SpecificVertexQueries : DeleteVertices(q)
    \/ \E q \in SpecificVertexQueries, name \in Names, value \in Values :
           SetVertexProperties(q, name, value)
    \/ \E q \in SpecificVertexQueries, name \in Names : DeleteVertexProperties(q, name)
    \/ \E name \in Names : IndexVertexProperty(name)
    \/ \E q \in VertexPropertyQueries : GetVertices(q)

SpecVertexIndex == Init /\ [][NextVertexIndex]_vars

(***************************************************************************)
(* The edge property index: edges of one type between vertices of one      *)
(* type, their properties set, names indexed, the index queried.           *)
(***************************************************************************)
EdgeWithPropertyQueries ==
    { PropertyPresenceQuery(n) : n \in Names }
    \cup { PropertyValueQuery(n, v) : n \in Names, v \in Values }

NextEdgeIndex ==
    \/ \E id \in Uuids : CreateVertex(id, 1)
    \/ \E key \in OneTypeEdgeKeys : CreateEdge(key, 0, 0)
    \/ \E key \in OneTypeEdgeKeys, name \in Names, value \in Values :
           SetEdgeProperties(SpecificEdgeQuery(<<key>>), name, value)
    \/ \E name \in Names : IndexEdgeProperty(name)
    \/ \E q \in EdgeWithPropertyQueries : GetEdges(q)

SpecEdgeIndex == Init /\ [][NextEdgeIndex]_vars

(***************************************************************************)
(* Property reads: vertices of one type and two edges out of one vertex,   *)
(* properties of several names set, deleted and read back.                 *)
(***************************************************************************)
ReadEdgeKeys == { key \in OneTypeEdgeKeys : key.outbound_id = UuidDefault /\ key.inbound_id # UuidDefault }

ReadVertexQueries == SpecificVertexQueries \cup {AllVertices}

ReadEdgeQueries ==
    { SpecificEdgeQuery(<<key>>) : key \in ReadEdgeKeys }
    \cup { PipeEdgeQuery(SpecificVertexQuery(<<UuidDefault>>), "Outbound", None, None, None, MaxLimit) }

NextPropertyReads ==
    \/ \E id \in Uuids : CreateVertex(id, 1)
    \/ \E key \in ReadEdgeKeys : CreateEdge(key, 0, 0)
    \/ \E q \in SpecificVertexQueries, name \in PropertyNames :
           SetVertexProperties(q, name, 1)
    \/ \E q \in SpecificVertexQueries, name \in PropertyNames :
           DeleteVertexProperties(q, name)
    \/ \E key \in ReadEdgeKeys, name \in PropertyNames :
           SetEdgeProperties(SpecificEdgeQuery(<<key>>), name, 1)
    \/ \E key \in ReadEdgeKeys, name \in PropertyNames :
           DeleteEdgeProperties(SpecificEdgeQuery(<<key>>), name)
    \/ \E q \in ReadVertexQueries, name \in PropertyNames : GetVertexProperties(q, name)
    \/ \E q \in ReadVertexQueries : GetAllVertexProperties(q)
    \/ \E q \in ReadEdgeQueries, name \in PropertyNames : GetEdgeProperties(q, name)
    \/ \E q \in ReadEdgeQueries : GetAllEdgeProperties(q)

SpecPropertyReads == Init /\ [][NextPropertyReads]_vars

(***************************************************************************)
(* Property values that include JSON null.                                 *)
(***************************************************************************)
NextNullValues ==
    \/ \E id \in Uuids : CreateVertex(id, 1)
    \/ \E key \in ReadEdgeKeys : CreateEdge(key, 0, 0)
    \/ \E q \in SpecificVertexQueries, name \in Names, value \in JsonValues :
           SetVertexProperties(q, name, value)
    \/ \E key \in ReadEdgeKeys, name \in Names, value \in JsonValues :
           SetEdgeProperties(SpecificEdgeQuery(<<key>>), name, value)
    \/ \E q \in ReadVertexQueries, name \in Names : GetVertexProperties(q, name)
    \/ \E q \in ReadEdgeQueries, name \in Names : GetEdgeProperties(q, name)

SpecNullValues == Init /\ [][NextNullValues]_vars

(***************************************************************************)
(* Range and pipe queries: vertices and edges of every type created, the   *)
(* vertex ranges and the pipes out of single vertices read.                *)
(***************************************************************************)
ReadLimits == {1, MaxLimit}

RangeVertexQueries ==
    { RangeVertexQuery(start_id, t, limit) :
          start_id \in Uuids \cup {None}, t \in {None, 1}, limit \in ReadLimits }

SingleVertexPipeQueries ==
    { PipeEdgeQuery(SpecificVertexQuery(<<v>>), direction, t, None, None, limit) :
          v \in Uuids, direction \in Directions, t \in {None, 1}, limit \in ReadLimits }

NextQueries ==
    \/ \E id \in Uuids, t \in Types : CreateVertex(id, t)
    \/ \E key \in EdgeKeys : CreateEdge(key, 0, 0)
    \/ \E q \in RangeVertexQueries : GetVertices(q)
    \/ \E q \in SingleVertexPipeQueries : GetEdges(q)

SpecQueries == Init /\ [][NextQueries]_vars

(***************************************************************************)
(* The graph read through Database::get: queries with Include and Count    *)
(* stages over the pipes out of one vertex, the vertices of one type.       *)
(***************************************************************************)
PipeQuery(inner, direction, t) == PipeEdgeQuery(inner, direction, t, None, None, MaxLimit)

IncludeQueries ==
    \* Include(SpecificVertex([a])).Pipe(direction).Include.Count
    { CountQuery(IncludeQuery(PipeQuery(IncludeQuery(SpecificVertexQuery(<<a>>)), d, t))) :
          a \in Uuids, d \in Directions, t \in {None, 1} }
    \* Include(SpecificVertex([a])).Pipe(Outbound).Include.Pipe(direction)
    \cup { PipeQuery(IncludeQuery(PipeQuery(IncludeQuery(SpecificVertexQuery(<<a>>)),
                                           "Outbound", None)), d, None) :
             a \in Uuids, d \in Directions }
    \* no Include
    \cup { CountQuery(PipeQuery(SpecificVertexQuery(<<a>>), d, None)) :
             a \in Uuids, d \in Directions }
    \* an Include as the last stage
    \cup { IncludeQuery(PipeQuery(IncludeQuery(SpecificVertexQuery(<<a>>)), "Outbound", None)) :
             a \in Uuids }
    \* an Include of an Include
    \cup { CountQuery(IncludeQuery(IncludeQuery(SpecificVertexQuery(<<a>>)))) : a \in Uuids }

NextIncludes ==
    \/ \E id \in Uuids : CreateVertex(id, 1)
    \/ \E key \in EdgeKeys : CreateEdge(key, 0, 0)
    \/ \E q \in IncludeQueries : Get(q)

SpecIncludes == Init /\ [][NextIncludes]_vars

(***************************************************************************)
(* The edge counts: vertices of one type, edges of every type, vertices    *)
(* deleted, the edges of a vertex counted directly and through get.        *)
(***************************************************************************)
CountQueries ==
    { CountQuery(PipeQuery(SpecificVertexQuery(<<id>>), direction, t)) :
          id \in Uuids, direction \in Directions, t \in Types \cup {None} }

NextEdgeCount ==
    \/ \E id \in Uuids : CreateVertex(id, 1)
    \/ \E key \in EdgeKeys : CreateEdge(key, 0, 0)
    \/ \E q \in SpecificVertexQueries : DeleteVertices(q)
    \/ \E id \in Uuids, t \in Types \cup {None}, direction \in Directions :
           GetEdgeCount(id, t, direction)
    \/ \E q \in CountQueries : Get(q)

SpecEdgeCount == Init /\ [][NextEdgeCount]_vars

(***************************************************************************)
(* The vertex property index while it is built: vertices of one type and   *)
(* their properties written, a name indexed step by step, the index read   *)
(* by the calls the RwLock lets in.                                        *)
(***************************************************************************)
IndexReadQueries ==
    { PropertyPresenceQuery(n) : n \in Names }
    \cup { PropertyValueQuery(n, v) : n \in Names, v \in Values }

NextIndexLock ==
    \/ \E id \in Uuids : write_guard(lock) /\ CreateVertex(id, 1)
    \/ \E q \in SpecificVertexQueries, name \in Names, value \in Values :
           write_guard(lock) /\ SetVertexProperties(q, name, value)
    \/ \E name \in Names : IndexBegin(name)
    \/ IndexScan
    \/ IndexEntry
    \/ \E value \in Values : IndexMerge(value)
    \/ IndexEnd
    \/ \E q \in IndexReadQueries : read_guard(lock) /\ GetVertices(q)

SpecIndexLock == Init /\ [][NextIndexLock]_vars

(***************************************************************************)
(* RocksdbTransaction.  The transaction holds its managers and the         *)
(* database handle and no snapshot: each manager call reads the database   *)
(* as it is when the call is made.  Writers commit one batch at a time and *)
(* take no lock on the data.                                               *)
(***************************************************************************)
\* VertexManager::exists(id)
vertex_manager_exists(db, id) == id \in DOMAIN db.vertices

\* VertexManager::get(id): the type of the vertex, if the row is there
vertex_manager_get(db, id) == IF id \in DOMAIN db.vertices THEN db.vertices[id] ELSE None

\* the rows of one name and value in key order, as the iterator yields them
iterate_for_value(db, name, value) ==
    LET ids == { id \in Uuids : <<name, value, id>> \in db.vertex_property_values }
    IN  [i \in 1..Cardinality(ids) |->
            <<name, value, CHOOSE x \in ids : Cardinality({ y \in ids : y < x }) = i - 1>>]

\* the batches committed beside one read that the model follows
MaxWrites == 2

\* a writer may commit beside the read in progress
admitted(sc) == sc.pc = "iter" => Cardinality(sc.seen) <= MaxWrites

\* the states of the database an operation in progress has run beside
observed(sc, db) == IF sc.pc = "iter" THEN [sc EXCEPT !.seen = @ \cup {db}] ELSE sc

\* the batch of create_vertex
created(db, id, t) == [db EXCEPT !.vertices = MapInsert(@, id, t)]

\* RocksdbTransaction::create_vertex
RdbCreateVertex(id, t) ==
    /\ admitted(scanning)
    /\ rdb' = IF vertex_manager_exists(rdb, id) THEN rdb ELSE created(rdb, id, t)
    /\ scanning' = observed(scanning, rdb')
    /\ lastOp' = Returned("rdb_create_vertex", "Ok", ~vertex_manager_exists(rdb, id), 0, <<>>)
    /\ UNCHANGED <<datastore, poisoned, lock, indexing, files, syncing,
                 transactions, creating>>

\* the batch of set_vertex_properties for an indexed name: the row of the old
\* value out, the row of the new value in
indexed_value_set(db, id, name, value) ==
    [db EXCEPT !.vertex_property_values =
        { r \in @ : ~(r[1] = name /\ r[3] = id) } \cup {<<name, value, id>>}]

\* set_vertex_properties of one vertex, one batch
RdbSetVertexProperty(id, name, value) ==
    /\ admitted(scanning)
    /\ vertex_manager_exists(rdb, id)
    /\ rdb' = indexed_value_set(rdb, id, name, value)
    /\ scanning' = observed(scanning, rdb')
    /\ lastOp' = Returned("rdb_set_vertex_properties", "Ok", FALSE, 0, <<>>)
    /\ UNCHANGED <<datastore, poisoned, lock, indexing, files, syncing,
                 transactions, creating>>

\* the batch of delete_vertices for one vertex: its row and its index rows
vertex_deleted(db, id) ==
    [db EXCEPT !.vertices = MapRemove(@, id),
               !.vertex_property_values = { r \in @ : r[3] # id }]

\* delete_vertices of one vertex, one batch
RdbDeleteVertex(id) ==
    /\ admitted(scanning)
    /\ vertex_manager_exists(rdb, id)
    /\ rdb' = vertex_deleted(rdb, id)
    /\ scanning' = observed(scanning, rdb')
    /\ lastOp' = Returned("rdb_delete_vertices", "Ok", FALSE, 0, <<>>)
    /\ UNCHANGED <<datastore, poisoned, lock, indexing, files, syncing,
                 transactions, creating>>

\* a property-value query opens the iterator over the index rows
ScanBegin(name, value) ==
    /\ scanning.pc = "idle"
    /\ scanning' = [pc |-> "iter", name |-> name, value |-> value,
                    iter |-> iterate_for_value(rdb, name, value),
                    vertices |-> <<>>, seen |-> {rdb}]
    /\ UNCHANGED <<datastore, poisoned, lastOp, lock, indexing, files, syncing, rdb,
                 transactions, creating>>

\* one turn of the loop of vertices_from_property_value_iterator
looked_up(db, vertices, item) ==
    IF vertex_manager_get(db, item[3]) # None
    THEN Append(vertices, [id |-> item[3], t |-> vertex_manager_get(db, item[3])])
    ELSE vertices

ScanStep ==
    /\ scanning.pc = "iter"
    /\ scanning.iter # <<>>
    /\ scanning' = [scanning EXCEPT !.iter = Tail(@),
                                    !.vertices = looked_up(rdb, @, Head(scanning.iter))]
    /\ UNCHANGED <<datastore, poisoned, lastOp, lock, indexing, files, syncing, rdb,
                 transactions, creating>>

\* the iterator is exhausted: Ok(vertices)
ScanEnd ==
    /\ scanning.pc = "iter"
    /\ scanning.iter = <<>>
    /\ scanning' = [scanning EXCEPT !.pc = "idle"]
    /\ lastOp' = Returned("vertices_from_property_value_iterator", "Ok", FALSE, 0,
                          scanning.vertices)
    /\ UNCHANGED <<datastore, poisoned, lock, indexing, files, syncing, rdb,
                 transactions, creating>>

\* the whole operation on one state of the database
vertices_from_property_value_iterator(db, name, value) ==
    LET iter == iterate_for_value(db, name, value)
    IN  [i \in 1..Len(iter) |-> [id |-> iter[i][3], t |-> vertex_manager_get(db, iter[i][3])]]

(***************************************************************************)
(* RocksdbTransaction::create_vertex step by step, called by several       *)
(* threads, each through a transaction of its own on the one database.     *)
(***************************************************************************)
\* if self.vertex_manager.exists(vertex.id)?
CreateExists(thread, id, t) ==
    /\ creating[thread].pc # "checked"
    /\ creating' = [creating EXCEPT ![thread] =
                       [pc |-> "checked", id |-> id, t |-> t,
                        exists |-> vertex_manager_exists(rdb, id), inserted |-> FALSE]]
    /\ UNCHANGED <<datastore, poisoned, lastOp, lock, indexing, files, syncing, rdb,
                   scanning, transactions>>

\* Ok(false), or the batch written and Ok(true)
CreateWrite(thread) ==
    /\ creating[thread].pc = "checked"
    /\ rdb' = IF creating[thread].exists THEN rdb
              ELSE created(rdb, creating[thread].id, creating[thread].t)
    /\ creating' = [creating EXCEPT ![thread].pc = "returned",
                                    ![thread].inserted = ~creating[thread].exists]
    /\ lastOp' = Returned("rdb_create_vertex", "Ok", ~creating[thread].exists, thread, <<>>)
    /\ UNCHANGED <<datastore, poisoned, lock, indexing, files, syncing, scanning,
                   transactions>>

(***************************************************************************)
(* RocksdbTransaction::sync                                                *)
(***************************************************************************)
CF_NAMES ==
    << "vertices:v1", "edges:v1", "edge_ranges:v1", "reversed_edge_ranges:v1",
       "vertex_properties:v1", "edge_properties:v1", "vertex_property_values:v1",
       "edge_property_values:v1", "metadata:v1" >>

\* the column family a manager of the transaction compacts
compact(manager) ==
    CASE manager = "vertex_manager" -> "vertices:v1"
      [] manager = "edge_manager" -> "edges:v1"
      [] manager = "edge_range_manager" -> "edge_ranges:v1"
      [] manager = "reversed_edge_range_manager" -> "reversed_edge_ranges:v1"
      [] manager = "vertex_property_manager" -> "vertex_properties:v1"
      [] manager = "edge_property_manager" -> "edge_properties:v1"
      [] manager = "vertex_property_value_manager" -> "vertex_property_values:v1"
      [] manager = "edge_property_value_manager" -> "edge_property_values:v1"
      [] manager = "metadata_manager" -> "metadata:v1"

\* the compact() calls of sync, in order
compacted ==
    << compact("vertex_manager"), compact("edge_manager"), compact("edge_range_manager"),
       compact("edge_range_manager"), compact("vertex_property_manager"),
       compact("edge_property_manager"), compact("vertex_property_value_manager"),
       compact("edge_property_value_manager"), compact("metadata_manager") >>

\* sync: the column families compacted, then self.db.flush()?, then Ok(());
\* flushed is the outcome of the flush
rdb_sync(flushed) ==
    [err |-> IF flushed THEN "Ok" ELSE "Err", val |-> Append(compacted, "flush")]

RdbSync(flushed) ==
    /\ lastOp' = Returned("rdb_sync", rdb_sync(flushed).err, flushed, 0, rdb_sync(flushed).val)
    /\ UNCHANGED <<datastore, poisoned, lock, indexing, files, syncing, rdb, scanning,
                   transactions, creating>>

(***************************************************************************)
(* Identifier and Type.  A string is its first characters (text) followed  *)
(* by a run of the letter X (tail letters), which is how the tests build   *)
(* long names.                                                             *)
(***************************************************************************)
\* the characters of text that the model follows
MaxText == 2

\* the greatest length of a valid name
MaxNameLength == 255

Letters == {"a"}

Digits == {"1"}

Chars == Letters \cup Digits \cup {"-", "_", "$", ":"}

Texts == UNION { [1..n -> Chars] : n \in 0..MaxText }

Strings ==
    { [text |-> text, tail |-> tail] :
        text \in Texts, tail \in {0, MaxNameLength - MaxText, MaxNameLength} }

\* s.len()
len(s) == Len(s.text) + s.tail

\* char::is_alphanumeric
is_alphanumeric(c) == c \in Letters \cup Digits

\* s.chars().all(|c| c == '-' || c == '_' || c.is_alphanumeric())
all_allowed(s) ==
    \A i \in 1..Len(s.text) : s.text[i] = "-" \/ s.text[i] = "_" \/ is_alphanumeric(s.text[i])

ValueTooLong == [err |-> "ValueTooLong", val |-> <<>>]

InvalidValue == [err |-> "InvalidValue", val |-> <<>>]

\* Type::new
type_new(s) ==
    IF len(s) > MaxNameLength THEN ValueTooLong
    ELSE IF ~all_allowed(s) THEN InvalidValue
    ELSE Ok(s)

\* the position of the first ':' of the text, 0 when there is none
first_colon(text) ==
    IF \E i \in 1..Len(text) : text[i] = ":"
    THEN CHOOSE i \in 1..Len(text) : text[i] = ":" /\ \A j \in 1..(i - 1) : text[j] # ":"
    ELSE 0

\* Url::parse(s).is_ok(): an absolute URL begins with a scheme, a letter
\* followed by letters, digits, '+', '-' or '.', and then ':'; what follows
\* the ':' of a scheme that is not a special one is kept as an opaque path
url_parse(s) ==
    /\ first_colon(s.text) > 1
    /\ s.text[1] \in Letters
    /\ \A j \in 2..(first_colon(s.text) - 1) : s.text[j] \in Letters \cup Digits \cup {"-"}

\* Identifier::new
identifier_new(s) == IF url_parse(s) THEN Ok(s) ELSE InvalidValue

\* Identifier::new_unchecked
new_unchecked(s) == Ok(s)

\* <Identifier as FromStr>::from_str
from_str(s) == identifier_new(s)

\* <Identifier as TryFrom<String>>::try_from
try_from(s) == identifier_new(s)

\* <Identifier as Deserialize>::deserialize of a string
identifier_deserialize(s) == new_unchecked(s)

\* a constructor called on a string
Construct(op, s, made) ==
    /\ lastOp' = Returned(op, made.err, made.err = "Ok", len(s), <<s>>)
    /\ UNCHANGED <<datastore, poisoned, lock, indexing, files, syncing, rdb, scanning,
                   transactions, creating>>

IdentifierNew(s) == Construct("Identifier::new", s, identifier_new(s))

IdentifierFromStr(s) == Construct("Identifier::from_str", s, from_str(s))

IdentifierTryFrom(s) == Construct("Identifier::try_from", s, try_from(s))

IdentifierNewUnchecked(s) == Construct("Identifier::new_unchecked", s, new_unchecked(s))

IdentifierDeserialize(s) == Construct("Identifier::deserialize", s, identifier_deserialize(s))

TypeNew(s) == Construct("Type::new", s, type_new(s))

(***************************************************************************)
(* The datastore and its image: two vertices and a loop edge of one type,  *)
(* a property of each vertex and of the edge, names indexed, the store     *)
(* synced and the image read.                                              *)
(***************************************************************************)
PersistedUuids == {UuidDefault, MaxUuid}

PersistedEdge == EdgeKeyNew(UuidDefault, 1, UuidDefault)

PersistedValues == {JsonNull, MaxValue}

NextImage ==
    \/ \E id \in PersistedUuids : CreateVertex(id, 1)
    \/ CreateEdge(PersistedEdge, MaxTime, MaxTime)
    \/ \E name \in Names, value \in PersistedValues :
           SetVertexProperties(SpecificVertexQuery(<<UuidDefault>>), name, value)
    \/ \E name \in Names :
           SetEdgeProperties(SpecificEdgeQuery(<<PersistedEdge>>), name, MaxValue)
    \/ \E name \in Names : IndexVertexProperty(name)
    \/ \E name \in Names : IndexEdgeProperty(name)
    \/ Sync
    \/ ReadImage

SpecImage == Init /\ [][NextImage]_vars

(***************************************************************************)
(* The image while it is written: one vertex, a loop edge and a property   *)
(* of the vertex, written whenever the write guard is to be had, the store *)
(* synced step by step, the process crashing, the image read.              *)
(***************************************************************************)
NextPersist ==
    \/ write_guard(lock) /\ syncing.pc # "crashed" /\ CreateVertex(UuidDefault, 1)
    \/ /\ write_guard(lock) /\ syncing.pc # "crashed"
       /\ CreateEdge(PersistedEdge, MaxTime, MaxTime)
    \/ /\ write_guard(lock) /\ syncing.pc # "crashed"
       /\ DeleteVertices(SpecificVertexQuery(<<UuidDefault>>))
    \/ \E name \in Names, value \in PersistedValues :
           /\ write_guard(lock) /\ syncing.pc # "crashed"
           /\ SetVertexProperties(SpecificVertexQuery(<<UuidDefault>>), name, value)
    \/ SyncBegin
    \/ SyncLock
    \/ SyncWrite
    \/ SyncPersist
    \/ SyncEnd
    \/ Crash
    \/ ReadImage

SpecPersist == Init /\ [][NextPersist]_vars

(***************************************************************************)
(* The index read of the KV backend beside writers: two vertices of one    *)
(* type, one indexed name, two values.                                     *)
(***************************************************************************)
ScannedUuids == {UuidDefault, MaxUuid}

NextRdbScan ==
    \/ \E id \in ScannedUuids : RdbCreateVertex(id, 1)
    \/ \E id \in ScannedUuids, value \in PersistedValues : RdbSetVertexProperty(id, 1, value)
    \/ \E id \in ScannedUuids : RdbDeleteVertex(id)
    \/ \E value \in PersistedValues : ScanBegin(1, value)
    \/ ScanStep
    \/ ScanEnd

SpecRdbScan == Init /\ [][NextRdbScan]_vars

(***************************************************************************)
(* The update times of edges: edges of one type created at two readings of *)
(* the clock, the second never before the first, and read back through     *)
(* specific queries and through pipes with time bounds in both directions. *)
(***************************************************************************)
TimedEdgeQueries ==
    { SpecificEdgeQuery(<<key>>) : key \in OneTypeEdgeKeys }
    \cup { PipeEdgeQuery(SpecificVertexQuery(<<a>>), d, None, high, low, MaxLimit) :
             a \in Uuids, d \in Directions,
             high \in {None} \cup Times, low \in {None} \cup Times }

NextEdgeTimes ==
    \/ \E id \in Uuids : CreateVertex(id, 1)
    \/ \E key \in OneTypeEdgeKeys, now1 \in Times, now2 \in Times :
           now1 <= now2 /\ CreateEdge(key, now1, now2)
    \/ \E q \in SpecificEdgeQueries : DeleteEdges(q)
    \/ \E q \in TimedEdgeQueries : GetEdges(q)

SpecEdgeTimes == Init /\ [][NextEdgeTimes]_vars

(***************************************************************************)
(* Scripts on one datastore: transactions opened and dropped, vertices     *)
(* created, deleted and read through them.                                 *)
(***************************************************************************)
NextScripts ==
    \/ ScriptTransaction
    \/ \E i \in 1..MaxTransactions, id \in Uuids, t \in Types : ScriptCreateVertex(i, id, t)
    \/ \E i \in 1..MaxTransactions, q \in SpecificVertexQueries : ScriptDeleteVertices(i, q)
    \/ \E i \in 1..MaxTransactions, q \in SpecificVertexQueries : ScriptGetVertices(i, q)
    \/ ScriptReturn

SpecScripts == Init /\ [][NextScripts]_vars

(***************************************************************************)
(* The KV backend written and synced: vertices created and deleted, an     *)
(* indexed property set, sync called with the flush succeeding or failing. *)
(***************************************************************************)
NextRdbSync ==
    \/ \E id \in Uuids, t \in Types : RdbCreateVertex(id, t)
    \/ \E id \in Uuids, value \in PersistedValues : RdbSetVertexProperty(id, 1, value)
    \/ \E id \in Uuids : RdbDeleteVertex(id)
    \/ \E flushed \in BOOLEAN : RdbSync(flushed)

SpecRdbSync == Init /\ [][NextRdbSync]_vars

(***************************************************************************)
(* create_vertex of the KV backend called by threads at the same time; no  *)
(* vertex is deleted.                                                      *)
(***************************************************************************)
NextRdbCreate ==
    \/ \E thread \in Threads, id \in Uuids, t \in Types : CreateExists(thread, id, t)
    \/ \E thread \in Threads : CreateWrite(thread)

SpecRdbCreate == Init /\ [][NextRdbCreate]_vars

(***************************************************************************)
(* Names: the constructors of Identifier and Type called on every string.  *)
(***************************************************************************)
NextIdentifiers ==
    \/ \E s \in Strings : IdentifierNew(s)
    \/ \E s \in Strings : IdentifierFromStr(s)
    \/ \E s \in Strings : IdentifierTryFrom(s)
    \/ \E s \in Strings : IdentifierNewUnchecked(s)
    \/ \E s \in Strings : IdentifierDeserialize(s)
    \/ \E s \in Strings : TypeNew(s)

SpecIdentifiers == Init /\ [][NextIdentifiers]_vars

(***************************************************************************)
(* Properties of the graph operations.  A property of a call is stated of  *)
(* the call's operator applied to the reachable datastore, for every       *)
(* argument the actions draw.                                              *)
(***************************************************************************)
EndpointsExist(self, key) ==
    key.outbound_id \in DOMAIN self.vertices /\ key.inbound_id \in DOMAIN self.vertices

\* C4: create_vertex returns true exactly when no vertex with that id existed;
\* a true call stores the vertex with the given type, a false call changes
\* nothing, so the existing vertex keeps its type; a second call with the same
\* id returns false.
C4_CreateVertexOnce ==
    \A id \in Uuids, t \in Types :
        LET first == create_vertex(datastore, id, t)
        IN  /\ first.inserted = (id \notin DOMAIN datastore.vertices)
            /\ first.inserted =>
                   first.self = [datastore EXCEPT
                                    !.vertices = MapInsert(datastore.vertices, id, t)]
            /\ ~first.inserted => first.self = datastore
            /\ \A t2 \in Types :
                   LET second == create_vertex(first.self, id, t2)
                   IN  ~second.inserted /\ second.self.vertices[id] = first.self.vertices[id]

\* a create_vertex call has returned false and the vertex is there
C4_Witness ==
    /\ lastOp.op = "create_vertex"
    /\ lastOp.flag = FALSE
    /\ DOMAIN datastore.vertices # {}

\* C5: create_edge with a missing endpoint returns false and changes no table.
C5_CreateEdgeMissingEndpoint ==
    \A key \in EdgeKeys, now1 \in Times, now2 \in Times :
        ~EndpointsExist(datastore, key) =>
            LET done == create_edge(datastore, key, now1, now2)
            IN  ~done.created /\ done.self = datastore

\* create_edge has returned false in a store that has a vertex and an edge
C5_Witness ==
    /\ lastOp.op = "create_edge"
    /\ lastOp.err = "Ok"
    /\ lastOp.flag = FALSE
    /\ DOMAIN datastore.vertices # {}
    /\ DOMAIN datastore.edges # {}

\* C6 as claimed: create_edge returns true exactly when both endpoints exist
\* and the triple was not stored before.
C6_TrueOnlyWhenNew ==
    \A key \in EdgeKeys, now1 \in Times, now2 \in Times :
        create_edge(datastore, key, now1, now2).created
            <=> EndpointsExist(datastore, key) /\ key \notin DOMAIN datastore.edges

\* C6 as amended: create_edge returns true exactly when both endpoints exist,
\* whether or not the triple was stored before; after a true call the triple
\* is stored, and no call removes a stored triple.
C6_TrueWhenEndpointsExist ==
    \A key \in EdgeKeys, now1 \in Times, now2 \in Times :
        LET done == create_edge(datastore, key, now1, now2)
        IN  /\ done.created = EndpointsExist(datastore, key)
            /\ done.created => DOMAIN done.self.edges = DOMAIN datastore.edges \cup {key}
            /\ ~done.created => DOMAIN done.self.edges = DOMAIN datastore.edges

\* create_edge has returned true with an edge stored
C6_Witness ==
    /\ lastOp.op = "create_edge"
    /\ lastOp.flag = TRUE
    /\ DOMAIN datastore.edges # {}

\* C7: (out, t, in) is a key of edges exactly when (in, t, out) is a key of
\* reversed_edges.
C7_Lockstep ==
    \A key \in EdgeKeys :
        key \in DOMAIN datastore.edges
            <=> EdgeKeyReversed(key) \in DOMAIN datastore.reversed_edges

\* an edge between two different vertices is left after a delete_edges call
\* that deleted another
C7_Witness ==
    /\ lastOp.op = "delete_edges"
    /\ lastOp.count >= 1
    /\ \E key \in DOMAIN datastore.edges : key.outbound_id # key.inbound_id

\* some stage of the query gave as many items as its limit allows
RECURSIVE VertexLimitReached(_, _)
RECURSIVE EdgeLimitReached(_, _)

VertexLimitReached(self, q) ==
    CASE q.kind = "Range" -> Len(get_vertex_values_by_query(self, q).val) >= q.limit
      [] q.kind = "Pipe" ->
            \/ EdgeLimitReached(self, q.inner)
            \/ Len(get_vertex_values_by_query(self, q).val) >= q.limit
      [] q.kind = "PipePropertyPresence" -> VertexLimitReached(self, q.inner)
      [] OTHER -> FALSE

EdgeLimitReached(self, q) ==
    CASE q.kind = "Pipe" ->
            \/ VertexLimitReached(self, q.inner)
            \/ Len(get_edge_values_by_query(self, q).val) >= q.limit
      [] OTHER -> FALSE

\* C10 as claimed: for every query q, delete(q) twice leaves the datastore as
\* delete(q) once does.
C10_DeleteTwice ==
    /\ \A q \in VertexQueries :
           LET once == transaction_delete_vertices(datastore, q)
           IN  transaction_delete_vertices(once, q) = once
    /\ \A q \in EdgeQueries :
           LET once == transaction_delete_edges(datastore, q)
           IN  transaction_delete_edges(once, q) = once

\* C10 as amended: delete(q) twice leaves the datastore as delete(q) once does
\* for every query q no stage of which reaches its limit.
C10_DeleteTwiceBelowLimit ==
    /\ \A q \in VertexQueries :
           ~VertexLimitReached(datastore, q) =>
               LET once == transaction_delete_vertices(datastore, q)
               IN  transaction_delete_vertices(once, q) = once
    /\ \A q \in EdgeQueries :
           ~EdgeLimitReached(datastore, q) =>
               LET once == transaction_delete_edges(datastore, q)
               IN  transaction_delete_edges(once, q) = once

\* a delete_vertices call has deleted two vertices at once and left one
C10_Witness ==
    /\ lastOp.op = "delete_vertices"
    /\ lastOp.err = "Ok"
    /\ lastOp.count = 2
    /\ Cardinality(DOMAIN datastore.vertices) = 1

(***************************************************************************)
(* Properties of the graph with properties.                                *)
(***************************************************************************)
\* C1: every key of edges and of reversed_edges names two vertices that exist.
C1_EdgeEndpointsExist ==
    /\ \A key \in DOMAIN datastore.edges : EndpointsExist(datastore, key)
    /\ \A key \in DOMAIN datastore.reversed_edges : EndpointsExist(datastore, key)

\* a delete_vertices call has deleted a vertex and an edge is still stored
C1_Witness ==
    /\ lastOp.op = "delete_vertices"
    /\ lastOp.count >= 1
    /\ DOMAIN datastore.edges # {}
    /\ DOMAIN datastore.vertex_properties # {}

\* nothing of vertex v is in the tables of self
NothingOf(self, v) ==
    /\ v \notin DOMAIN self.vertices
    /\ \A key \in DOMAIN self.edges \cup DOMAIN self.reversed_edges :
           key.outbound_id # v /\ key.inbound_id # v
    /\ \A k \in DOMAIN self.vertex_properties : k[1] # v
    /\ \A k \in DOMAIN self.edge_properties : k[1].outbound_id # v /\ k[1].inbound_id # v

\* no query on self returns vertex v or an edge at v
NoQueryReturns(self, v) ==
    /\ \A q \in OwnerVertexQueries :
           \A row \in SeqRange(get_vertex_values_by_query(self, q).val) : row.id # v
    /\ \A q \in OwnerEdgeQueries :
           \A row \in SeqRange(get_edge_values_by_query(self, q).val) :
               row.key.outbound_id # v /\ row.key.inbound_id # v

\* C2: after delete_vertices the tables hold no edge at a deleted vertex, no
\* property of it and no property of an edge at it, and no query returns
\* them; and this stays so for as long as the id is not a vertex again.
C2_DeleteVertexCascades ==
    /\ \A q \in OwnerVertexQueries :
           LET found == get_vertex_values_by_query(datastore, q)
               after == transaction_delete_vertices(datastore, q)
           IN  \A v \in SeqRange(VertexIds(found)) :
                   NothingOf(after, v) /\ NoQueryReturns(after, v)
    /\ \A v \in Uuids \ DOMAIN datastore.vertices :
           NothingOf(datastore, v) /\ NoQueryReturns(datastore, v)

\* a delete_vertices call has deleted a vertex; a vertex with a property and an
\* edge with a property are left
C2_Witness ==
    /\ lastOp.op = "delete_vertices"
    /\ lastOp.err = "Ok"
    /\ lastOp.count >= 1
    /\ DOMAIN datastore.vertex_properties # {}
    /\ DOMAIN datastore.edge_properties # {}

(***************************************************************************)
(* Properties of the property indexes.                                     *)
(***************************************************************************)
HasVertexProperty(self, o, name, value) ==
    /\ <<o, name>> \in DOMAIN self.vertex_properties
    /\ self.vertex_properties[<<o, name>>] = value

HasEdgeProperty(self, key, name, value) ==
    /\ <<key, name>> \in DOMAIN self.edge_properties
    /\ self.edge_properties[<<key, name>>] = value

InVertexIndex(self, o, name, value) ==
    /\ value \in DOMAIN self.vertex_property_values[name]
    /\ o \in self.vertex_property_values[name][value]

\* C3: for every indexed name p, owner o and value v, o is in the index entry
\* (p, v) exactly when o has property p equal to v.
C3_IndexInStep ==
    \A p \in DOMAIN datastore.vertex_property_values :
        \A o \in Uuids, v \in Values :
            InVertexIndex(datastore, o, p, v) <=> HasVertexProperty(datastore, o, p, v)

\* C8: the presence and value queries on n return NotIndexed exactly when n
\* is not a key of the index, which only index_vertex_property makes it;
\* right after index_vertex_property(n) the value query returns exactly the
\* vertices that have n equal to the value.
C8_VertexIndexQueries ==
    \A n \in Names :
        /\ get_vertex_values_by_query(datastore, PropertyPresenceQuery(n)).err = "NotIndexed"
               <=> n \notin DOMAIN datastore.vertex_property_values
        /\ \A v \in Values :
               get_vertex_values_by_query(datastore, PropertyValueQuery(n, v)).err = "NotIndexed"
                   <=> n \notin DOMAIN datastore.vertex_property_values
        /\ \A q \in SpecificVertexQueries, v \in Values :
               DOMAIN set_vertex_properties(datastore, q, n, v).vertex_property_values
                   = DOMAIN datastore.vertex_property_values
        /\ LET after == index_vertex_property(datastore, n)
           IN  \A v \in Values :
                   LET found == get_vertex_values_by_query(after, PropertyValueQuery(n, v))
                   IN  /\ found.err = "Ok"
                       /\ SeqRange(VertexIds(found))
                              = { o \in DOMAIN datastore.vertices :
                                      HasVertexProperty(datastore, o, n, v) }

\* C9: the edge presence and value queries return NotIndexed on a name that
\* is not indexed and, on an indexed name, the edges that have the property
\* (equal to the value).
C9_EdgeIndexQueries ==
    \A n \in Names :
        LET presence == get_edge_values_by_query(datastore, PropertyPresenceQuery(n))
        IN  /\ n \notin DOMAIN datastore.edge_property_values =>
                   presence.err = "NotIndexed"
            /\ n \in DOMAIN datastore.edge_property_values =>
                   /\ presence.err = "Ok"
                   /\ SeqRange(EdgeKeysOf(presence))
                          = { key \in DOMAIN datastore.edges :
                                  <<key, n>> \in DOMAIN datastore.edge_properties }
            /\ \A v \in Values :
                   LET found == get_edge_values_by_query(datastore, PropertyValueQuery(n, v))
                   IN  /\ n \notin DOMAIN datastore.edge_property_values =>
                              found.err = "NotIndexed"
                       /\ n \in DOMAIN datastore.edge_property_values =>
                              /\ found.err = "Ok"
                              /\ SeqRange(EdgeKeysOf(found))
                                     = { key \in DOMAIN datastore.edges :
                                             HasEdgeProperty(datastore, key, n, v) }

(***************************************************************************)
(* Properties of deletes and property writes that match nothing.           *)
(***************************************************************************)
\* C11: deleting a vertex, an edge or a property that does not exist (also a
\* property an existing owner never had) returns success and leaves every
\* table of the store as it was.
C11_DeleteNonexistent ==
    /\ \A v \in Uuids \ DOMAIN datastore.vertices :
           /\ get_vertex_values_by_query(datastore, SpecificVertexQuery(<<v>>)).err = "Ok"
           /\ transaction_delete_vertices(datastore, SpecificVertexQuery(<<v>>)) = datastore
    /\ \A key \in EdgeKeys \ DOMAIN datastore.edges :
           /\ get_edge_values_by_query(datastore, SpecificEdgeQuery(<<key>>)).err = "Ok"
           /\ transaction_delete_edges(datastore, SpecificEdgeQuery(<<key>>)) = datastore
    /\ \A v \in Uuids, n \in Names :
           <<v, n>> \notin DOMAIN datastore.vertex_properties =>
               delete_vertex_properties(datastore, SpecificVertexQuery(<<v>>), n) = datastore
    /\ \A key \in EdgeKeys, n \in Names :
           <<key, n>> \notin DOMAIN datastore.edge_properties =>
               delete_edge_properties(datastore, SpecificEdgeQuery(<<key>>), n) = datastore

\* a delete that matched nothing has returned Ok on a store that holds a
\* vertex without the property, a vertex with it and an edge with it
C11_Witness ==
    /\ lastOp.op \in {"delete_vertices", "delete_vertex_properties"}
    /\ lastOp.err = "Ok"
    /\ lastOp.count = 0
    /\ \E v \in DOMAIN datastore.vertices, n \in Names :
           <<v, n>> \notin DOMAIN datastore.vertex_properties
    /\ datastore.vertex_properties # EmptyMap
    /\ datastore.edge_properties # EmptyMap

(***************************************************************************)
(* Properties of the property writes and reads.                            *)
(***************************************************************************)
VertexRowsWith(vertices, value) ==
    [i \in 1..Len(vertices) |-> [id |-> vertices[i].id, value |-> value]]

EdgeRowsWith(edges, value) ==
    [i \in 1..Len(edges) |-> [key |-> edges[i].key, value |-> value]]

SetSetDeleteVertex(self, q, n, first, second) ==
    LET once == set_vertex_properties(self, q, n, first)
        twice == set_vertex_properties(once, q, n, second)
        matched == get_vertex_values_by_query(self, q).val
    IN  /\ get_vertex_properties(once, q, n) = Ok(VertexRowsWith(matched, first))
        /\ get_vertex_properties(twice, q, n) = Ok(VertexRowsWith(matched, second))
        /\ get_vertex_properties(delete_vertex_properties(twice, q, n), q, n) = Ok(<<>>)

SetSetDeleteEdge(self, q, n, first, second) ==
    LET once == set_edge_properties(self, q, n, first)
        twice == set_edge_properties(once, q, n, second)
        matched == get_edge_values_by_query(self, q).val
    IN  /\ get_edge_properties(once, q, n) = Ok(EdgeRowsWith(matched, first))
        /\ get_edge_properties(twice, q, n) = Ok(EdgeRowsWith(matched, second))
        /\ get_edge_properties(delete_edge_properties(twice, q, n), q, n) = Ok(<<>>)

\* C12: after set_properties(q, name, v) the read of name through q returns
\* one entry with value v for each owner q matches, a second set replaces the
\* value, and after the property is deleted the read returns no entry.
C12_SetThenRead ==
    \A n \in PropertyNames, first \in Values, second \in Values :
        /\ \A q \in ReadVertexQueries : SetSetDeleteVertex(datastore, q, n, first, second)
        /\ \A q \in ReadEdgeQueries : SetSetDeleteEdge(datastore, q, n, first, second)

\* a read has returned the value set on two owners
C12_Witness ==
    /\ lastOp.op \in {"get_vertex_properties", "get_edge_properties"}
    /\ lastOp.err = "Ok"
    /\ Len(lastOp.rows) >= 2
    /\ \A i \in 1..Len(lastOp.rows) : lastOp.rows[i].value = 1

\* C13 as claimed: set_properties with the value null is rejected and leaves
\* the property of every matched owner as it was.
C13_NullRejected ==
    \A n \in Names :
        /\ \A q \in ReadVertexQueries :
               set_vertex_properties(datastore, q, n, JsonNull) = datastore
        /\ \A q \in ReadEdgeQueries :
               set_edge_properties(datastore, q, n, JsonNull) = datastore

\* C13 as amended: set_properties with the value null succeeds like any other
\* value and stores null as the property of every matched owner, so the read
\* through the same query returns one entry with value null per owner.
C13_NullStored ==
    \A n \in Names :
        /\ \A q \in ReadVertexQueries :
               LET matched == get_vertex_values_by_query(datastore, q)
               IN  /\ matched.err = "Ok"
                   /\ get_vertex_properties(set_vertex_properties(datastore, q, n, JsonNull), q, n)
                          = Ok(VertexRowsWith(matched.val, JsonNull))
        /\ \A q \in ReadEdgeQueries :
               LET matched == get_edge_values_by_query(datastore, q)
               IN  /\ matched.err = "Ok"
                   /\ get_edge_properties(set_edge_properties(datastore, q, n, JsonNull), q, n)
                          = Ok(EdgeRowsWith(matched.val, JsonNull))

\* a read has returned a property whose stored value is null
C13_Witness ==
    /\ lastOp.op \in {"get_vertex_properties", "get_edge_properties"}
    /\ lastOp.err = "Ok"
    /\ \E i \in 1..Len(lastOp.rows) : lastOp.rows[i].value = JsonNull

\* C14: set_properties through a query that matches no existing vertex (or
\* no existing edge) returns success and creates no property: the store is
\* unchanged and a later read of the property for that id or triple is empty.
C14_SetMatchesNothing ==
    \A n \in PropertyNames, value \in Values :
        /\ \A v \in Uuids \ DOMAIN datastore.vertices :
               LET q == SpecificVertexQuery(<<v>>)
                   after == set_vertex_properties(datastore, q, n, value)
               IN  /\ get_vertex_values_by_query(datastore, q) = Ok(<<>>)
                   /\ after = datastore
                   /\ get_vertex_properties(after, q, n) = Ok(<<>>)
        /\ \A key \in EdgeKeys \ DOMAIN datastore.edges :
               LET q == SpecificEdgeQuery(<<key>>)
                   after == set_edge_properties(datastore, q, n, value)
               IN  /\ get_edge_values_by_query(datastore, q) = Ok(<<>>)
                   /\ after = datastore
                   /\ get_edge_properties(after, q, n) = Ok(<<>>)

\* a set_properties call that matched nothing has returned Ok on a store
\* that holds vertices and properties
C14_Witness ==
    /\ lastOp.op \in {"set_vertex_properties", "set_edge_properties"}
    /\ lastOp.err = "Ok"
    /\ lastOp.count = 0
    /\ datastore.vertices # EmptyMap
    /\ datastore.vertex_properties # EmptyMap

HasVertexProperties(self, v) ==
    \E n \in PropertyNames : <<v.id, n>> \in DOMAIN self.vertex_properties

HasEdgeProperties(self, e) ==
    \E n \in PropertyNames : <<e.key, n>> \in DOMAIN self.edge_properties

\* C15: the all-properties read of a query has one entry per matched owner
\* that has at least one property and no entry for a matched owner without
\* properties (so it is empty when no matched owner has a property).
C15_EntriesOnlyForOwnersWithProperties ==
    /\ \A q \in ReadVertexQueries :
           LET all == get_all_vertex_properties(datastore, q)
               matched == get_vertex_values_by_query(datastore, q).val
           IN  all.err = "Ok" =>
                   [i \in 1..Len(all.val) |-> all.val[i].vertex]
                       = SelectSeq(matched, LAMBDA v : HasVertexProperties(datastore, v))
    /\ \A q \in ReadEdgeQueries :
           LET all == get_all_edge_properties(datastore, q)
               matched == get_edge_values_by_query(datastore, q).val
           IN  all.err = "Ok" =>
                   [i \in 1..Len(all.val) |-> all.val[i].edge]
                       = SelectSeq(matched, LAMBDA e : HasEdgeProperties(datastore, e))

\* the properties set on an owner, by ascending name
PropertiesOf(properties, owner) ==
    LET names == SelectSeq([n \in 1..MaxPropertyName |-> n],
                           LAMBDA n : <<owner, n>> \in DOMAIN properties)
    IN  [i \in 1..Len(names) |-> [name |-> names[i], value |-> properties[<<owner, names[i]>>]]]

\* C16: in an all-properties read that returns, the entry of an owner lists
\* exactly the properties now set on that owner, each once, by ascending
\* name, and no property of another owner.
C16_EntryListsOwnProperties ==
    /\ \A q \in ReadVertexQueries :
           LET all == get_all_vertex_properties(datastore, q)
           IN  all.err = "Ok" =>
                   \A i \in 1..Len(all.val) :
                       all.val[i].props
                           = PropertiesOf(datastore.vertex_properties, all.val[i].vertex.id)
    /\ \A q \in ReadEdgeQueries :
           LET all == get_all_edge_properties(datastore, q)
           IN  all.err = "Ok" =>
                   \A i \in 1..Len(all.val) :
                       all.val[i].props
                           = PropertiesOf(datastore.edge_properties, all.val[i].edge.key)

\* an all-properties read has returned two owners adjacent in key order, the
\* first with two properties and the second with one
C16_Witness ==
    /\ lastOp.op \in {"get_all_vertex_properties", "get_all_edge_properties"}
    /\ lastOp.err = "Ok"
    /\ Len(lastOp.rows) = 2
    /\ Len(lastOp.rows[1].props) = 2
    /\ Len(lastOp.rows[2].props) = 1

(***************************************************************************)
(* Properties of the pipe and range queries.                               *)
(***************************************************************************)
PipeFrom(self, v, direction) ==
    SeqRange(EdgeKeysOf(get_edge_values_by_query(self,
        PipeEdgeQuery(SpecificVertexQuery(<<v>>), direction, None, None, None, MaxLimit))))

\* C17: every stored edge is returned by the outbound pipe from its outbound
\* vertex and by the inbound pipe from its inbound vertex, as the triple it
\* was created with; and each pipe returns only stored edges that have the
\* vertex at that end.
C17_EdgeInBothPipes ==
    /\ \A key \in DOMAIN datastore.edges :
           /\ key \in PipeFrom(datastore, key.outbound_id, "Outbound")
           /\ key \in PipeFrom(datastore, key.inbound_id, "Inbound")
    /\ \A v \in Uuids :
           /\ \A key \in PipeFrom(datastore, v, "Outbound") :
                  key \in DOMAIN datastore.edges /\ key.outbound_id = v
           /\ \A key \in PipeFrom(datastore, v, "Inbound") :
                  key \in DOMAIN datastore.edges /\ key.inbound_id = v

\* create_edge has succeeded and the store holds two edges between different
\* vertices, one leaving a vertex the other enters
C17_Witness ==
    /\ lastOp.op = "create_edge"
    /\ lastOp.flag
    /\ \E a, b \in DOMAIN datastore.edges :
           /\ a # b
           /\ a.outbound_id # a.inbound_id
           /\ b.inbound_id = a.outbound_id
           /\ b.outbound_id # b.inbound_id

LeastEdgeKey == EdgeKeyNew(UuidDefault, TypeDefault, UuidDefault)

\* the edges at one end of which v lies, of type t when t is given, in the
\* key order of the table that direction scans, as the triples stored
IncidentEdges(self, v, direction, t) ==
    LET table == IF direction = "Outbound" THEN DOMAIN self.edges
                 ELSE DOMAIN self.reversed_edges
        sorted == EdgeKeysFrom({ k \in table : k.outbound_id = v /\ (t = None \/ k.t = t) },
                               LeastEdgeKey)
    IN  [i \in 1..Len(sorted) |->
            IF direction = "Outbound" THEN sorted[i] ELSE EdgeKeyReversed(sorted[i])]

FirstIncidentEdges(self, ids, direction, t, n) ==
    LET present == SelectSeq(ids, LAMBDA v : v \in DOMAIN self.vertices)
        all == Flatten([i \in 1..Len(present) |-> IncidentEdges(self, present[i], direction, t)])
    IN  SubSeq(all, 1, IF n < Len(all) THEN n ELSE Len(all))

PipeInnerIds ==
    { <<v>> : v \in Uuids } \cup { <<MaxUuid, UuidDefault>>, UuidsFrom(Uuids, UuidDefault) }

\* C18: a pipe from vertices to edges with type filter t and limit n returns
\* the first n of the incident edges of type t, taken per inner vertex in the
\* key order of the forward (outbound) or reversed (inbound) table: the limit
\* counts only edges of type t, bounds the total over all inner vertices, and
\* n = 0 gives the empty result.
C18_PipeLimitAfterType ==
    \A ids \in PipeInnerIds, direction \in Directions, t \in Types \cup {None}, n \in Limits :
        LET found == get_edge_values_by_query(datastore,
                         PipeEdgeQuery(SpecificVertexQuery(ids), direction, t, None, None, n))
        IN  /\ found.err = "Ok"
            /\ EdgeKeysOf(found) = FirstIncidentEdges(datastore, ids, direction, t, n)
            /\ n = 0 => found.val = <<>>

\* a pipe has returned one edge of a vertex that has a loop of each type
C18_Witness ==
    /\ lastOp.op = "get_edges"
    /\ lastOp.err = "Ok"
    /\ Len(lastOp.rows) = 1
    /\ \E v \in Uuids :
           /\ lastOp.rows[1].key.outbound_id = v
           /\ DOMAIN datastore.edges = { EdgeKeyNew(v, t, v) : t \in Types }

\* the vertices a range query selects before its limit
InRange(self, start_id, t) ==
    { v \in DOMAIN self.vertices :
          /\ start_id # None => v >= start_id
          /\ t # None => self.vertices[v] = t }

\* C19: a vertex range query {start_id, t, limit} returns, by ascending id,
\* the first limit vertices among those with id >= start_id (all vertices
\* without start_id) and of type t when t is given.
C19_RangeQuery ==
    \A start_id \in Uuids \cup {None}, t \in Types \cup {None}, limit \in Limits :
        LET found == get_vertex_values_by_query(datastore, RangeVertexQuery(start_id, t, limit))
            ids == VertexIds(found)
            selected == InRange(datastore, start_id, t)
        IN  /\ found.err = "Ok"
            /\ Len(ids) = IF limit < Cardinality(selected) THEN limit ELSE Cardinality(selected)
            /\ \A i \in 1..Len(ids) :
                   /\ ids[i] \in selected
                   /\ found.val[i].t = datastore.vertices[ids[i]]
                   /\ \A j \in 1..Len(ids) : i < j => ids[i] < ids[j]
                   /\ \A v \in selected \ SeqRange(ids) : ids[i] < v

\* a range query has returned one vertex, not the least, of three stored
C19_Witness ==
    /\ lastOp.op = "get_vertices"
    /\ lastOp.err = "Ok"
    /\ Len(lastOp.rows) = 1
    /\ lastOp.rows[1].id # UuidDefault
    /\ DOMAIN datastore.vertices = Uuids

C21_NeverPanics ==
    lastOp.err # "Panic"

RECURSIVE IncludeCount(_)
\* the number of Include stages of a query
IncludeCount(q) ==
    IF "inner" \notin DOMAIN q THEN 0
    ELSE IncludeCount(q.inner) + (IF q.kind = "Include" THEN 1 ELSE 0)

RECURSIVE WithoutIncludes(_)
\* the query with its Include stages taken out
WithoutIncludes(q) ==
    IF "inner" \notin DOMAIN q THEN q
    ELSE IF q.kind = "Include" THEN WithoutIncludes(q.inner)
    ELSE [q EXCEPT !.inner = WithoutIncludes(q.inner)]

RECURSIVE IncludedStages(_)
\* the stages inside an Include, innermost first
IncludedStages(q) ==
    IF "inner" \notin DOMAIN q THEN <<>>
    ELSE IF q.kind = "Include" THEN Append(IncludedStages(q.inner), q.inner)
    ELSE IncludedStages(q.inner)

\* the one output of a query without Include stages
FinalOutput(self, q) == get(self, WithoutIncludes(q)).val[1]

\* get(q) gives the output of each included stage in order, then the final output
OnePerInclude(self, q) ==
    LET found == get(self, q)
        stages == IncludedStages(q)
    IN  /\ found.err = "Ok"
        /\ Len(found.val) = IncludeCount(q) + 1
        /\ \A i \in 1..Len(stages) : found.val[i] = FinalOutput(self, stages[i])
        /\ found.val[Len(found.val)] = FinalOutput(self, q)

\* Include(SpecificVertex([a])).Pipe(Outbound).Include.Count gives the vertex,
\* the edges leaving it and their number
IncludeExample(self, a) ==
    LET edges == get_edge_values_by_query(self,
                     PipeQuery(SpecificVertexQuery(<<a>>), "Outbound", None)).val
    IN  get(self, CountQuery(IncludeQuery(PipeQuery(IncludeQuery(SpecificVertexQuery(<<a>>)),
                                                    "Outbound", None))))
        = Ok(<<Vertices(get_vertex_values_by_query(self, SpecificVertexQuery(<<a>>)).val),
               Edges(edges), Count(Len(edges))>>)

RowsWithProperty(self, rows, name, exists) ==
    SelectSeq(rows, LAMBDA v : (<<v.id, name>> \in DOMAIN self.vertex_properties) <=> exists)

\* C23: when n is indexed, a pipe-property-presence filter over an inner
\* vertex query returns exactly the inner vertices that have n set
\* (exists = true) or exactly those that have not (exists = false), in inner
\* order, and an Include before the filter also yields the inner result.
C23_PresenceFilter ==
    \A n \in DOMAIN datastore.vertex_property_values, exists \in BOOLEAN :
        \A inner \in SpecificVertexQueries \cup {AllVertices} :
            LET rows == get_vertex_values_by_query(datastore, inner).val
                kept == RowsWithProperty(datastore, rows, n, exists)
            IN  /\ get_vertex_values_by_query(datastore,
                       PipePropertyPresenceQuery(inner, n, exists)) = Ok(kept)
                /\ get(datastore, PipePropertyPresenceQuery(IncludeQuery(inner), n, exists))
                       = Ok(<<Vertices(rows), Vertices(kept)>>)

\* C24: for every vertex id, direction and optional type t,
\* get_edge_count(id, t, direction) is the number of edges the unlimited pipe
\* from SpecificVertex([id]) in that direction, filtered by t, returns, which
\* is what Count of that pipe gives; it is 0 for an id that is not a vertex.
C24_CountIsPipeLength ==
    \A id \in Uuids, t \in Types \cup {None}, direction \in Directions :
        LET n == get_edge_count(datastore, id, t, direction)
            pipe == PipeQuery(SpecificVertexQuery(<<id>>), direction, t)
        IN  /\ n = Len(get_edge_values_by_query(datastore, pipe).val)
            /\ get(datastore, CountQuery(pipe)) = Ok(<<Count(n)>>)
            /\ id \notin DOMAIN datastore.vertices => n = 0

\* get_edge_count has counted one edge where the store holds two
C24_Witness ==
    /\ lastOp.op = "get_edge_count"
    /\ lastOp.count = 1
    /\ Cardinality(DOMAIN datastore.edges) = 2

\* C25: index_property(name) for a name that is already indexed is a no-op:
\* the index contents and every other table are the same after the call as
\* before it, whatever was set or deleted since the first indexing.
C25_ReindexNoOp ==
    \A name \in DOMAIN datastore.vertex_property_values :
        index_vertex_property(datastore, name) = datastore

\* the owners that had the property when the index call in progress, or the
\* last one made, began
OwnersWhenIndexingBegan == UNION { indexing.scanned[value] : value \in DOMAIN indexing.scanned }

\* C26: a reader let in while index_property(name) runs, or at any other
\* time, either gets NotIndexed or sees an index that holds every owner that
\* had the property when indexing began: never a partly filled index.
C26_ReaderSeesWholeIndex ==
    read_guard(lock) =>
        \A name \in Names :
            LET found == get_vertex_values_by_query(datastore, PropertyPresenceQuery(name))
            IN  \/ found.err = "NotIndexed"
                \/ /\ found.err = "Ok"
                   /\ indexing.name = name =>
                          OwnersWhenIndexingBegan \subseteq SeqRange(VertexIds(found))

\* a reader got NotIndexed; the index call now holds the write guard with the
\* name entered and one of two values merged
C26_Witness ==
    /\ lastOp.op = "get_vertices"
    /\ lastOp.err = "NotIndexed"
    /\ lock = "write"
    /\ indexing.pc = "merge"
    /\ Cardinality(DOMAIN indexing.scanned) = 2
    /\ Cardinality(DOMAIN indexing.property_container) = 1

\* when the call returns, the index built step by step is the index
\* index_vertex_property gives
IndexStepsAgree ==
    lastOp.op = "index_vertex_property" /\ indexing.pc = "idle" =>
        index_vertex_property(datastore, indexing.name) = datastore

\* a query on the name does not return NotIndexed
Indexed(self, n) ==
    get_vertex_values_by_query(self, PropertyPresenceQuery(n)).err # "NotIndexed"

\* C27: the set of indexed names only grows: once a query on n stops
\* returning NotIndexed, no set or delete of properties, delete of owners or
\* re-indexing makes a query on n return NotIndexed again.
C27_IndexedNamesOnlyGrow ==
    [][\A n \in Names : Indexed(datastore, n) => Indexed(datastore', n)]_vars

\* a property and its owner were deleted after the name was indexed with
\* them, and the name is still indexed
C27_Witness ==
    /\ lastOp.op = "delete_vertices"
    /\ lastOp.count = 1
    /\ \E n \in Names :
           /\ Indexed(datastore, n)
           /\ \E v \in DOMAIN datastore.vertex_property_values[n] :
                  datastore.vertex_property_values[n][v] \ DOMAIN datastore.vertices # {}

ImageWhole == files.path.exists => deserialize(files.path.bytes).err = "Ok"

\* C29: if the process crashes at any step of sync, the file at the persist
\* path holds the whole previous image or the whole new one, never part of
\* one; the rename is the only step that changes the file at the path.
C29_RenameCommits ==
    /\ []ImageWhole
    /\ [][files'.path # files.path =>
              /\ syncing.pc = "write"
              /\ syncing'.pc = "persisted"
              /\ files'.path = File(syncing.image)]_vars

\* the process crashed with part of the new image in the temporary file; the
\* file at the path still holds the image of an earlier, different store
C29_Witness ==
    /\ syncing.pc = "crashed"
    /\ files.temp.exists
    /\ Len(files.temp.bytes) \in 1..6
    /\ files.path.exists
    /\ read(files.path).err = "Ok"
    /\ read(files.path).val # datastore

(***************************************************************************)
(* Properties of the KV backend's reads.                                   *)
(***************************************************************************)
\* the answers of the index read on the states the operation ran beside
SnapshotAnswers ==
    { vertices_from_property_value_iterator(db, scanning.name, scanning.value) :
        db \in scanning.seen }

EdgeHasNoProperties(self, key) ==
    /\ \A k \in DOMAIN self.edge_properties : k[1] # key
    /\ \A n \in Names :
           get_edge_properties(self, SpecificEdgeQuery(<<key>>), n) = Ok(<<>>)

\* the edges found are bare after the delete and bare when created again
DeletedEdgesBare(found, after) ==
    \A key \in SeqRange(EdgeKeysOf(found)) :
        /\ key \notin DOMAIN after.edges
        /\ EdgeHasNoProperties(after, key)
        /\ EdgeHasNoProperties(create_edge(after, key, 0, 0).self, key)

\* C33: after delete_edges no property of a deleted edge is left in the
\* store, and an edge created again with the same triple has no properties;
\* so has every edge created on a triple that is not stored.
C33_DeletedEdgeHasNoProperties ==
    /\ \A q \in OwnerEdgeQueries :
           DeletedEdgesBare(get_edge_values_by_query(datastore, q),
                            transaction_delete_edges(datastore, q))
    /\ \A key \in OneTypeEdgeKeys \ DOMAIN datastore.edges :
           EdgeHasNoProperties(create_edge(datastore, key, 0, 0).self, key)

\* a delete_edges call has deleted an edge; another edge with a property is left
C33_Witness ==
    /\ lastOp.op = "delete_edges"
    /\ lastOp.err = "Ok"
    /\ lastOp.count >= 1
    /\ DOMAIN datastore.edge_properties # {}
    /\ DOMAIN datastore.vertex_properties = {}

\* C37: every vertex property belongs to a vertex that exists and every edge
\* property to an edge that exists, after any sequence of create,
\* set_properties and delete operations.
C37_NoOrphanProperties ==
    /\ \A k \in DOMAIN datastore.vertex_properties : k[1] \in DOMAIN datastore.vertices
    /\ \A k \in DOMAIN datastore.edge_properties : k[1] \in DOMAIN datastore.edges

\* a delete_vertices call has deleted a vertex; a vertex property and an edge
\* property are left and a vertex without properties exists
C37_Witness ==
    /\ lastOp.op = "delete_vertices"
    /\ lastOp.err = "Ok"
    /\ lastOp.count >= 1
    /\ DOMAIN datastore.vertex_properties # {}
    /\ DOMAIN datastore.edge_properties # {}
    /\ \E v \in DOMAIN datastore.vertices :
           \A k \in DOMAIN datastore.vertex_properties : k[1] # v

\* the presence and value queries on the vertex index
VertexIndexQueries ==
    { PropertyPresenceQuery(n) : n \in Names }
    \cup { PropertyValueQuery(n, v) : n \in Names, v \in Values }

\* vertex v of self has no property, no edge and is in no answer of the index
BareVertex(self, v) ==
    /\ v \in DOMAIN self.vertices
    /\ \A k \in DOMAIN self.vertex_properties : k[1] # v
    /\ \A key \in DOMAIN self.edges \cup DOMAIN self.reversed_edges :
           key.outbound_id # v /\ key.inbound_id # v
    /\ \A q \in VertexIndexQueries :
           \A row \in SeqRange(get_vertex_values_by_query(self, q).val) : row.id # v

\* C38: a vertex created with the id of a deleted vertex (or with any id that
\* is not a vertex) has no properties, no incident edges, and is returned by
\* no property-presence or property-value query on an indexed name, even if
\* the deleted vertex had the property when the name was indexed.
C38_RecreatedVertexBare ==
    \A v \in Uuids \ DOMAIN datastore.vertices :
        BareVertex(create_vertex(datastore, v, 1).self, v)

(***************************************************************************)
(* Properties of the update times.                                         *)
(***************************************************************************)
\* the edges a pipe returns are the same in both directions
SameEdgesBothWays(self, key, high, low) ==
    LET out == get_edge_values_by_query(self,
                   PipeEdgeQuery(SpecificVertexQuery(<<key.outbound_id>>), "Outbound",
                                 None, high, low, MaxLimit)).val
        inb == get_edge_values_by_query(self,
                   PipeEdgeQuery(SpecificVertexQuery(<<key.inbound_id>>), "Inbound",
                                 None, high, low, MaxLimit)).val
    IN  \A row \in SeqRange(out) \cup SeqRange(inb) :
            row.key = key => row \in SeqRange(out) /\ row \in SeqRange(inb)

\* C39: for every edge the update time in the forward table equals the update
\* time under its reversed key, so the inbound pipe returns the edge with the
\* time the SpecificEdge query and the outbound pipe return, and the high and
\* low bounds select the same edges in both directions.
C39_SameUpdateTime ==
    \A key \in DOMAIN datastore.edges :
        /\ datastore.reversed_edges[EdgeKeyReversed(key)] = datastore.edges[key]
        /\ \A high \in {None} \cup Times, low \in {None} \cup Times :
               SameEdgesBothWays(datastore, key, high, low)

(***************************************************************************)
(* Properties of the image beside writers.                                 *)
(***************************************************************************)
\* every edge of self has its reversed entry and both its vertices, every
\* reversed entry its edge, every property row its owner
WholeOperations(self) ==
    /\ \A key \in DOMAIN self.edges :
           /\ EdgeKeyReversed(key) \in DOMAIN self.reversed_edges
           /\ EndpointsExist(self, key)
    /\ \A key \in DOMAIN self.reversed_edges : EdgeKeyReversed(key) \in DOMAIN self.edges
    /\ \A k \in DOMAIN self.vertex_properties : k[1] \in DOMAIN self.vertices

\* C40: the image sync writes is the store at one instant between the call
\* and its return: what is written so far goes on to an image of the store
\* as it is, the image renamed over the path is an image of the store, and
\* the image at the path never holds part of one operation's effects.
C40_ImageOfOneInstant ==
    /\ syncing.pc = "write" =>
           \E image \in serialize(datastore) :
               \A i \in 1..Len(syncing.image) : image[i] = syncing.image[i]
    /\ syncing.pc = "persisted" => files.path.bytes \in serialize(datastore)
    /\ files.path.exists /\ read(files.path).err = "Ok" =>
           WholeOperations(read(files.path).val)

\* sync has written the first tables of a store with an edge and a property
\* while a writer waits for the guard
C40_Witness ==
    /\ syncing.pc = "write"
    /\ lock = "read"
    /\ Len(syncing.image) \in 2..6
    /\ DOMAIN datastore.edges # {}
    /\ DOMAIN datastore.vertex_properties # {}
    /\ files.path.exists

(***************************************************************************)
(* Properties of transactions.                                             *)
(***************************************************************************)
\* the transaction sees the vertex as the id's specific query
Visible(trans, self, vertex) ==
    get_vertex_values_by_query(guarded(trans, self), SpecificVertexQuery(<<vertex.id>>)).val
        = <<vertex>>

C32_SyncCompactsAll ==
    lastOp.op = "rdb_sync" =>
        /\ lastOp.rows[Len(lastOp.rows)] = "flush"
        /\ \A i \in 1..(Len(lastOp.rows) - 1) : lastOp.rows[i] # "flush"
        /\ \A n \in DOMAIN CF_NAMES :
               \E i \in 1..(Len(lastOp.rows) - 1) : lastOp.rows[i] = CF_NAMES[n]
        /\ lastOp.err = "Ok" => lastOp.flag

(***************************************************************************)
(* Properties of the KV backend's create_vertex.                           *)
(***************************************************************************)
\* the call of the thread has returned true for the id
CreatedBy(thread, id) ==
    /\ creating[thread].pc = "returned"
    /\ creating[thread].id = id
    /\ creating[thread].inserted

\* C36: of the create_vertex calls made with one id on the KV backend, at
\* the same time or not, only one returns true, and the stored vertex has
\* the type that call gave.
C36_OneCreates ==
    \A id \in Uuids, a \in Threads :
        CreatedBy(a, id) =>
            /\ rdb.vertices[id] = creating[a].t
            /\ \A b \in Threads \ {a} : ~CreatedBy(b, id)

(***************************************************************************)
(* Properties of names.                                                    *)
(***************************************************************************)
\* a plain name: at least one character, at most 255, each a letter, a
\* digit, '-' or '_'
PlainName(s) == len(s) >= 1 /\ len(s) <= MaxNameLength /\ all_allowed(s)

\* C34: Identifier::new succeeds for every plain name of at most 255
\* characters drawn from letters, digits, '-' and '_'.
C34_PlainNamesAccepted ==
    lastOp.op = "Identifier::new" /\ PlainName(lastOp.rows[1]) => lastOp.err = "Ok"

\* the constructors that validate
Validating == {"Identifier::new", "Identifier::from_str", "Identifier::try_from"}

\* C35: Identifier::new, from_str and try_from return a validation error for
\* every string longer than 255 characters and for every string with a
\* disallowed character, and accept and reject the same strings; only
\* new_unchecked and deserialization take such strings.
C35_InvalidNamesRejected ==
    /\ lastOp.op \in Validating =>
           /\ len(lastOp.rows[1]) > MaxNameLength \/ ~all_allowed(lastOp.rows[1])
                  => lastOp.err # "Ok"
           /\ lastOp.err = identifier_new(lastOp.rows[1]).err
    /\ lastOp.op \in {"Identifier::new_unchecked", "Identifier::deserialize"} =>
           lastOp.err = "Ok"

====
